---- MODULE Spec2Model ----
(***************************************************************************)
(* Handler chain and connection engine of the sacp JSON-RPC runtime.       *)
(*                                                                         *)
(* The typed handlers, the chained handler and the default handler are     *)
(* translated from sacp/src/jsonrpc/handlers.rs and sacp/src/role.rs.      *)
(* The dispatch loop that drives them (read a frame, run the chain, act on *)
(* the outcome, resolve pending requests) is modelled from the design      *)
(* document, sections 4.3, 4.4, 5 and 7.                                   *)
(***************************************************************************)
EXTENDS Integers, Sequences, FiniteSets, TLC

VARIABLES
    chain,      \* the composed handler chain: a sequence of handler descriptors
    last,       \* SpecChain only: the message delivered, the callbacks' choices, the outcome
    incoming,   \* frames the peer has written, in arrival order
    nread,      \* number of frames the read loop has read
    loop,       \* "idle" | "blocked" (inside an in-line callback) | "closed"
    cx,         \* request id -> state of its request context
    handled,    \* frame number -> what the chain returned for it, and which handler
    outgoing,   \* frames written to the peer, in order
    pending,    \* outgoing request id -> who waits for the response
    resolved,   \* outgoing request ids whose awaiting waiter has been handed its response
    call_q,     \* handler index -> calls enqueued for that handler's responder
    responder,  \* handler index -> what its responder is doing
    cblog,      \* callback events: which callback started / ended, after how many frames read
    \* the table of outgoing requests (SpecPending)
    pending_requests,   \* outgoing request ids whose one-shot slot is installed
    handle,             \* outgoing request id -> the values its handle has been handed
    dropped,            \* outgoing request ids whose handle the caller dropped
    from_peer,          \* response frames the peer has written and the loop has not read
    transport,          \* "open" | "eof": [written, closed] by the peer
    read_loop,          \* "serving" | "ended"
    \* an envelope on its way through serialization and parsing (SpecEnvelope)
    wire,
    \* MCP service registries in a handler chain (SpecRegistry, SpecMcp)
    registry,           \* position in the chain -> McpServiceRegistryData
    adding,             \* caller -> the add_mcp_server call it is in, past the name check
    last_add,           \* the add_mcp_server call that returned in the last step, and its result
    mcp_server_rx,      \* connection id -> messages queued in the connection's channel
    forwarder,          \* connection id -> "running" | "ended" | "failed": the forwarding task
    component,          \* connection id -> the server component created for it
    mcp_out,            \* responses written to the peer, in order
    mcp_last,           \* the frame dispatched in the last step and what each registry returned
    nframes,            \* number of frames dispatched
    \* messages a role has sent to a remote role (SpecRoles)
    sends,
    \* a connection served by the default proxy handler (SpecProxy)
    proxy,
    \* one serve() / with_client() call with its tasks and responders (SpecServe)
    served

corevars == <<chain, last, incoming, nread, loop, cx, handled, outgoing, pending,
              resolved, call_q, responder, cblog>>
tablevars == <<pending_requests, handle, dropped, from_peer, transport, read_loop>>
mcpvars == <<registry, adding, last_add, mcp_server_rx, forwarder, component,
             mcp_out, mcp_last, nframes>>
latevars == <<sends, proxy, served>>
extvars == <<tablevars, wire, mcpvars, latevars>>
vars == <<corevars, extvars>>

(***************************************************************************)
(* Bounds                                                                  *)
(***************************************************************************)
MaxChain == 2       \* handlers in a chain, the terminal null handler not counted
MaxFrames == 2      \* requests and notifications the peer sends on a connection
MaxResponses == 3   \* response frames the peer writes on a connection (SpecPending)
MaxServers == 2     \* add_mcp_server calls that pass the name check (SpecRegistry, SpecMcp)
MaxMcpFrames == 3   \* MCP-over-ACP frames dispatched to the registries (SpecMcp)
MaxSends == 2       \* messages the roles send (SpecRoles)
MaxForwards == 2    \* messages a proxy receives (SpecProxy)
MaxTasks == 2       \* responders registered on a served connection (SpecServe)

(***************************************************************************)
(* Messages                                                                *)
(***************************************************************************)
RequestMethods == {"initialize", "authenticate"}
NotificationMethods == {"session/cancel"}
Methods == RequestMethods \cup NotificationMethods
Bodies == {"ok", "bad"}           \* params that deserialize / that do not
Vals == {0, 1}                    \* a payload field a callback may rewrite

\* MessageCx: Request(message, request_cx) or Notification(message).  `id`
\* is the number of the frame that carried the message; for a request it is
\* the request id and names the request context.
MessageCx(kind, method, body, val, id) ==
    [kind |-> kind, method |-> method, body |-> body, val |-> val, id |-> id]

NoMessage == MessageCx("none", "none", "ok", 0, 0)

IsRequest(m) == m.kind = "request"
IsNotification(m) == m.kind = "notification"

(***************************************************************************)
(* Typed parse                                                             *)
(***************************************************************************)
\* util::json_cast: deserialize the params; a malformed body is InvalidParams.
json_cast(body) == IF body = "ok" THEN "Ok" ELSE "InvalidParams"

parse_message_AnyMethod(method, m) == json_cast(m.body)

\* JrRequest::parse_request / JrNotification::parse_notification of the typed
\* message whose method is `method`: None when the method differs, otherwise
\* Some(json_cast(params)).
parse_message(method, m) ==
    IF m.method # method THEN "None" ELSE json_cast(m.body)

(***************************************************************************)
(* Handled<MessageCx> and the effects a handler's callback had             *)
(***************************************************************************)
Fx(op, id, idx, code, data) ==
    [op |-> op, id |-> id, idx |-> idx, code |-> code, data |-> data]

HandledYes(fx) ==
    [handled |-> "Yes", message |-> NoMessage, retry |-> FALSE, err |-> "none", fx |-> fx]
HandledNo(message, retry, fx) ==
    [handled |-> "No", message |-> message, retry |-> retry, err |-> "none", fx |-> fx]
HandlerErr(err, fx) ==
    [handled |-> "Err", message |-> NoMessage, retry |-> FALSE, err |-> err, fx |-> fx]
\* the handler's future is suspended inside the user callback
HandlerPending(fx) ==
    [handled |-> "Pending", message |-> NoMessage, retry |-> FALSE, err |-> "none", fx |-> fx]

(***************************************************************************)
(* User callbacks.  What a callback does is the user's choice; the model   *)
(* draws it from these sets each time a callback is invoked.               *)
(***************************************************************************)
\* async callback of a request handler: (req, request_cx, connection_cx) -> Result<()>
\*   respond       request_cx.respond(..) or respond_with_error(..), Ok(())
\*   fail          Err(e), request_cx not used
\*   respond_fail  request_cx.respond(..), then Err(e)
\*   drop          Ok(()), request_cx not used
\*   forward       send_request(..).forward_to_request_cx(request_cx), Ok(())
\*   await         send_request(..) and await the response, then respond
RequestBeh == {"respond", "fail", "respond_fail", "drop", "forward", "await"}
\* callback of a notification handler: (notif, connection_cx) -> Result<()>
NotificationBeh == {"ok", "fail"}
\* sync callback: returns Handled::Yes, Handled::No { message, retry } or Err
SyncBeh == {"respond", "decline", "decline_retry", "fail"}

UserError == "InternalError"     \* the error value a failing callback returns

InlineKinds == {"RequestHandler", "NotificationHandler", "RequestHandlerSync"}

BehOf(kind) ==
    CASE kind = "RequestHandler" -> RequestBeh
      [] kind = "NotificationHandler" -> NotificationBeh
      [] kind = "RequestHandlerSync" -> SyncBeh
      [] OTHER -> {"none"}

\* The effects of running the async request callback with behaviour b on
\* request `id`, invoked by the handler (or responder) at chain index idx.
RequestCallbackFx(b, id, idx) ==
    <<Fx("cb_start", id, idx, b, "none")>> \o
    (CASE b = "respond"      -> <<Fx("respond", id, idx, "result", "none")>>
       [] b = "respond_fail" -> <<Fx("respond", id, idx, "result", "none")>>
       [] b = "forward"      -> <<Fx("forward", id, idx, "none", "none")>>
       [] b = "await"        -> <<Fx("send_await", id, idx, "none", "none")>>
       [] b = "drop"         -> <<Fx("drop", id, idx, "none", "none")>>
       [] OTHER              -> <<>>) \o
    (IF b = "await" THEN <<>> ELSE <<Fx("cb_end", id, idx, b, "none")>>)

RequestCallbackFails(b) == b \in {"fail", "respond_fail"}

(***************************************************************************)
(* Handlers (handlers.rs).  Each takes the handler descriptor h, its index *)
(* in the chain, the message and the behaviour b its callback will show,   *)
(* and returns the handler's result with the callback's effects.           *)
(***************************************************************************)
\* NullHandler::handle_message
NullHandler(m) == HandledNo(m, FALSE, <<>>)

\* as RequestHandler, but the message is handed on after the callback ran
RequestHandler_HandsOn(h, idx, m, b) ==
    IF IsRequest(m)
    THEN CASE parse_message(h.method, m) = "Ok" ->
                  IF b = "await" THEN HandlerPending(RequestCallbackFx(b, m.id, idx))
                  ELSE IF RequestCallbackFails(b)
                       THEN HandlerErr(UserError, RequestCallbackFx(b, m.id, idx))
                       ELSE HandledNo(m, FALSE, RequestCallbackFx(b, m.id, idx))
           [] parse_message(h.method, m) = "None" -> HandledNo(m, FALSE, <<>>)
           [] OTHER -> HandlerErr(parse_message(h.method, m), <<>>)
    ELSE HandledNo(m, FALSE, <<>>)

\* as RequestHandler, but a body that does not parse is declined
RequestHandler_DeclinesMalformed(h, idx, m, b) ==
    IF IsRequest(m)
    THEN CASE parse_message(h.method, m) = "Ok" ->
                  IF b = "await" THEN HandlerPending(RequestCallbackFx(b, m.id, idx))
                  ELSE IF RequestCallbackFails(b)
                       THEN HandlerErr(UserError, RequestCallbackFx(b, m.id, idx))
                       ELSE HandledYes(RequestCallbackFx(b, m.id, idx))
           [] OTHER -> HandledNo(m, FALSE, <<>>)
    ELSE HandledNo(m, FALSE, <<>>)

\* as RequestHandler, but the callback's future is spawned, not awaited
RequestHandler_Detached(h, idx, m, b) ==
    IF IsRequest(m)
    THEN CASE parse_message(h.method, m) = "Ok" ->
                  IF RequestCallbackFails(b)
                  THEN HandlerErr(UserError, RequestCallbackFx(b, m.id, idx))
                  ELSE HandledYes(RequestCallbackFx(b, m.id, idx))
           [] parse_message(h.method, m) = "None" -> HandledNo(m, FALSE, <<>>)
           [] OTHER -> HandlerErr(parse_message(h.method, m), <<>>)
    ELSE HandledNo(m, FALSE, <<>>)

\* as RequestHandler, but the callback's Err is swallowed
RequestHandler_SwallowsErr(h, idx, m, b) ==
    IF IsRequest(m)
    THEN CASE parse_message(h.method, m) = "Ok" ->
                  IF b = "await" THEN HandlerPending(RequestCallbackFx(b, m.id, idx))
                  ELSE HandledYes(RequestCallbackFx(b, m.id, idx))
           [] parse_message(h.method, m) = "None" -> HandledNo(m, FALSE, <<>>)
           [] OTHER -> HandlerErr(parse_message(h.method, m), <<>>)
    ELSE HandledNo(m, FALSE, <<>>)

\* as RequestHandler, but a callback that returned Ok(()) with the request context
\* unused has an error response written for it
RequestHandler_Synthesizes(h, idx, m, b) ==
    IF IsRequest(m)
    THEN CASE parse_message(h.method, m) = "Ok" ->
                  IF b = "await" THEN HandlerPending(RequestCallbackFx(b, m.id, idx))
                  ELSE IF RequestCallbackFails(b)
                       THEN HandlerErr(UserError, RequestCallbackFx(b, m.id, idx))
                       ELSE IF b = "drop"
                            THEN HandledYes(RequestCallbackFx(b, m.id, idx) \o
                                            <<Fx("respond", m.id, idx, UserError, "none")>>)
                            ELSE HandledYes(RequestCallbackFx(b, m.id, idx))
           [] parse_message(h.method, m) = "None" -> HandledNo(m, FALSE, <<>>)
           [] OTHER -> HandlerErr(parse_message(h.method, m), <<>>)
    ELSE HandledNo(m, FALSE, <<>>)

\* RequestHandler::handle_message: the callback is awaited in-line
RequestHandler(h, idx, m, b) ==
    IF IsRequest(m)
    THEN CASE parse_message(h.method, m) = "Ok" ->
                  IF b = "await" THEN HandlerPending(RequestCallbackFx(b, m.id, idx))
                  ELSE IF RequestCallbackFails(b)
                       THEN HandlerErr(UserError, RequestCallbackFx(b, m.id, idx))
                       ELSE HandledYes(RequestCallbackFx(b, m.id, idx))
           [] parse_message(h.method, m) = "None" -> HandledNo(m, FALSE, <<>>)
           [] OTHER -> HandlerErr(parse_message(h.method, m), <<>>)
    ELSE HandledNo(m, FALSE, <<>>)

\* NotificationHandler::handle_message
NotificationHandler(h, idx, m, b) ==
    IF IsNotification(m)
    THEN CASE parse_message(h.method, m) = "Ok" ->
                  IF b = "fail"
                  THEN HandlerErr(UserError, <<Fx("cb_start", m.id, idx, b, "none"),
                                               Fx("cb_end", m.id, idx, b, "none")>>)
                  ELSE HandledYes(<<Fx("cb_start", m.id, idx, b, "none"),
                                    Fx("cb_end", m.id, idx, b, "none")>>)
           [] parse_message(h.method, m) = "None" -> HandledNo(m, FALSE, <<>>)
           [] OTHER -> HandlerErr(parse_message(h.method, m), <<>>)
    ELSE HandledNo(m, FALSE, <<>>)

\* as RequestHandlerSync, but a declining callback's message and retry bit are dropped:
\* the next handler gets the message this one was given
RequestHandlerSync_HandsBackGiven(h, idx, m, b) ==
    IF IsRequest(m)
    THEN CASE parse_message(h.method, m) = "Ok" ->
                  LET ev == <<Fx("cb_start", m.id, idx, b, "none")>>
                      end == <<Fx("cb_end", m.id, idx, b, "none")>>
                  IN CASE b = "respond" ->
                            HandledYes(ev \o <<Fx("respond", m.id, idx, "result", "none")>> \o end)
                       [] b \in {"decline", "decline_retry"} -> HandledNo(m, FALSE, ev \o end)
                       [] OTHER -> HandlerErr(UserError, ev \o end)
           [] parse_message(h.method, m) = "None" -> HandledNo(m, FALSE, <<>>)
           [] OTHER -> HandlerErr(parse_message(h.method, m), <<>>)
    ELSE HandledNo(m, FALSE, <<>>)

\* as RequestHandlerSync, but the call is queued instead of run
RequestHandlerSync_Enqueue(h, idx, m, b) ==
    IF IsRequest(m)
    THEN CASE parse_message(h.method, m) = "Ok" ->
                  HandledYes(<<Fx("enqueue", m.id, idx, "none", "none")>>)
           [] parse_message(h.method, m) = "None" -> HandledNo(m, FALSE, <<>>)
           [] OTHER -> HandlerErr(parse_message(h.method, m), <<>>)
    ELSE HandledNo(m, FALSE, <<>>)

\* RequestHandlerSync::handle_message: a declining callback hands back the
\* (possibly rewritten) typed request, re-serialized under the same method
RequestHandlerSync(h, idx, m, b) ==
    IF IsRequest(m)
    THEN CASE parse_message(h.method, m) = "Ok" ->
                  LET ev == <<Fx("cb_start", m.id, idx, b, "none")>>
                      end == <<Fx("cb_end", m.id, idx, b, "none")>>
                  IN CASE b = "respond" ->
                            HandledYes(ev \o <<Fx("respond", m.id, idx, "result", "none")>> \o end)
                       [] b = "decline" -> HandledNo(m, FALSE, ev \o end)
                       [] b = "decline_retry" ->
                            HandledNo([m EXCEPT !.val = 1 - m.val], TRUE, ev \o end)
                       [] OTHER -> HandlerErr(UserError, ev \o end)
           [] parse_message(h.method, m) = "None" -> HandledNo(m, FALSE, <<>>)
           [] OTHER -> HandlerErr(parse_message(h.method, m), <<>>)
    ELSE HandledNo(m, FALSE, <<>>)

\* as RequestHandlerAsync, but the call is lost instead of queued
RequestHandlerAsync_NoEnqueue(h, idx, m) ==
    IF IsRequest(m)
    THEN CASE parse_message(h.method, m) = "Ok" -> HandledYes(<<>>)
           [] parse_message(h.method, m) = "None" -> HandledNo(m, FALSE, <<>>)
           [] OTHER -> HandlerErr(parse_message(h.method, m), <<>>)
    ELSE HandledNo(m, FALSE, <<>>)

\* as RequestHandlerAsync, but the callback is awaited on the dispatch loop
RequestHandlerAsync_Inline(h, idx, m) == RequestHandler(h, idx, m, "await")

\* RequestHandlerAsync::handle_message: parse and enqueue the call for the
\* paired responder; the callback is not run here
RequestHandlerAsync(h, idx, m) ==
    IF IsRequest(m)
    THEN CASE parse_message(h.method, m) = "Ok" ->
                  HandledYes(<<Fx("enqueue", m.id, idx, "none", "none")>>)
           [] parse_message(h.method, m) = "None" -> HandledNo(m, FALSE, <<>>)
           [] OTHER -> HandlerErr(parse_message(h.method, m), <<>>)
    ELSE HandledNo(m, FALSE, <<>>)

\* JrMessageHandler::handle_message, dispatched on the handler's type
handle_message(h, idx, m, b) ==
    CASE h.kind = "RequestHandler" -> RequestHandler(h, idx, m, b)
      [] h.kind = "NotificationHandler" -> NotificationHandler(h, idx, m, b)
      [] h.kind = "RequestHandlerSync" -> RequestHandlerSync(h, idx, m, b)
      [] h.kind = "RequestHandlerAsync" -> RequestHandlerAsync(h, idx, m)
      [] OTHER -> NullHandler(m)

\* One invocation in the trace of a chain run
Invocation(idx, m, r) ==
    [idx |-> idx, message |-> m, handled |-> r.handled, retry |-> r.retry, out |-> r.message]

\* ChainedHandler: handler2 is tried exactly when handler1 returned Handled::No
TryNext(r1) == r1.handled = "No"

ChainRetry_Second(retry1, retry2) == retry2

\* ChainedHandler: the aggregate retry bit, `retry1 | retry2`
ChainRetry(retry1, retry2) == retry1 \/ retry2

\* ChainedHandler::handle_message over handler1 = chain[idx] and handler2 =
\* the rest of the chain, ending in the null handler.  Returns the chained
\* result with the invocations made, in order.
RECURSIVE ChainedHandler(_, _, _, _)
ChainedHandler(hs, idx, m, beh) ==
    IF idx > Len(hs)
    THEN LET r == NullHandler(m)
         IN [r EXCEPT !.fx = <<>>] @@ [trace |-> <<Invocation(idx, m, r)>>]
    ELSE LET r1 == handle_message(hs[idx], idx, m, beh[idx])
             t1 == <<Invocation(idx, m, r1)>>
         IN IF TryNext(r1)
            THEN LET r2 == ChainedHandler(hs, idx + 1, r1.message, beh)
                 IN IF r2.handled = "No"
                    THEN [handled |-> "No", message |-> r2.message,
                          retry |-> ChainRetry(r1.retry, r2.retry), err |-> "none",
                          fx |-> r1.fx \o r2.fx, trace |-> t1 \o r2.trace]
                    ELSE [r2 EXCEPT !.fx = r1.fx \o r2.fx, !.trace = t1 \o r2.trace]
            ELSE r1 @@ [trace |-> t1]

default_message_handler_InvalidParams(m) ==
    Fx("respond", m.id, 0, "InvalidParams", "none")

\* HasCounterpart::default_message_handler (role.rs): answer the message with
\* MethodNotFound carrying the method string
default_message_handler(m) ==
    Fx("respond", m.id, 0, "MethodNotFound", m.method)

(***************************************************************************)
(* Connection engine.  The read loop and what it does with the chain's     *)
(* outcome follow the design document (sections 4.3, 4.4, 5 and 7).        *)
(***************************************************************************)
MaxId == 2 * MaxFrames            \* frame numbers: each request may draw one response
Ids == 1..MaxId

RequestFrame(id, method, body) ==
    [type |-> "request", id |-> id, method |-> method, body |-> body]
\* a response frame: {id, result} (code = "result") or {id, error: {code, data}}
ResponseFrame(id, code, data) ==
    [type |-> "response", id |-> id, method |-> code, body |-> data]

\* Frames written to the peer of a given type / for a given request id
OutRequests(out) == {i \in DOMAIN out : out[i].type = "request"}
ResponsesFor(out, id) == {i \in DOMAIN out : out[i].type = "response" /\ out[i].id = id}
\* "The engine assigns fresh identifiers": the next outgoing request id
NextOut(out) == Cardinality(OutRequests(out)) + 1

Waiter(oid, kind, id, idx, by) ==
    [oid |-> oid, kind |-> kind, id |-> id, idx |-> idx, by |-> by]

CbEvent(ev, id, idx, beh, by, at) ==
    [ev |-> ev, id |-> id, idx |-> idx, beh |-> beh, by |-> by, at |-> at]

\* The part of the connection state that effects change
EngineState ==
    [cx |-> cx, outgoing |-> outgoing, pending |-> pending, call_q |-> call_q,
     cblog |-> cblog, loop |-> loop]

\* JrRequestCx::respond / respond_with_error: write the response frame for
\* the request and consume the request context.  Nothing reaches the peer
\* once the connection has closed.
Respond(st, id, code, data) ==
    [st EXCEPT !.outgoing = IF st.loop = "closed" THEN @
                            ELSE Append(@, ResponseFrame(id, code, data)),
               !.cx[id] = "responded"]

\* One effect applied to the connection state.  `by` is "loop" when the
\* effect happens on the dispatch loop and "responder" otherwise; `at` is the
\* number of frames read when it happens.
ApplyOne(st, e, by, at) ==
    CASE e.op = "respond" -> Respond(st, e.id, e.code, e.data)
      [] e.op = "drop" -> [st EXCEPT !.cx[e.id] = "dropped"]
      [] e.op = "forward" ->
            IF st.loop = "closed"
            THEN [st EXCEPT !.cx[e.id] = "forwarded"]     \* nothing is sent any more
            ELSE [st EXCEPT !.outgoing = Append(@, RequestFrame(NextOut(st.outgoing), "none", "ok")),
                            !.pending = @ \cup {Waiter(NextOut(st.outgoing), "forward", e.id, e.idx, by)},
                            !.cx[e.id] = "forwarded"]
      [] e.op = "send_await" ->
            IF st.loop = "closed"
            THEN st                                       \* resolved at once, see ResponderTake
            ELSE [st EXCEPT !.outgoing = Append(@, RequestFrame(NextOut(st.outgoing), "none", "ok")),
                            !.pending = @ \cup {Waiter(NextOut(st.outgoing), "await", e.id, e.idx, by)}]
      [] e.op = "enqueue" -> [st EXCEPT !.call_q[e.idx] = Append(@, e.id)]
      [] e.op \in {"cb_start", "cb_end"} ->
            [st EXCEPT !.cblog = @ \cup {CbEvent(e.op, e.id, e.idx, e.code, by, at)}]
      [] OTHER -> st

RECURSIVE ApplyFx(_, _, _, _)
ApplyFx(st, fx, by, at) ==
    IF fx = <<>> THEN st
    ELSE ApplyFx(ApplyOne(st, Head(fx), by, at), Tail(fx), by, at)

\* What the engine does with the chain's outcome r for message m, given the
\* state st the callbacks left (design document 4.3, 4.4 and 7).
AfterChain(st, m, r) ==
    CASE r.handled = "No" ->
            IF IsRequest(r.message)
            THEN ApplyOne(st, default_message_handler(r.message), "loop", m.id)
            ELSE st                                   \* dropped silently
      [] r.handled = "Err" ->
            IF IsRequest(m) /\ st.cx[m.id] = "live"
            THEN Respond(st, m.id, r.err, "none")     \* on the still-live request_cx
            ELSE st                                   \* logged only
      [] r.handled = "Pending" -> [st EXCEPT !.loop = "blocked"]
      [] OTHER -> st

\* What the chain returned, and the index of the handler that returned it
\* (the last one invoked)
Outcome(r) == [outcome |-> r.handled, idx |-> r.trace[Len(r.trace)].idx]
NoOutcome == [outcome |-> "none", idx |-> 0]

\* The callbacks' choices for one run of the chain on message m; a handler
\* that does not parse m never runs its callback, so its choice is immaterial
BehChoices(hs, m) ==
    {beh \in [DOMAIN hs -> RequestBeh \cup NotificationBeh \cup SyncBeh \cup {"none"}] :
        \A i \in DOMAIN hs :
            beh[i] \in IF parse_message(hs[i].method, m) = "Ok" THEN BehOf(hs[i].kind)
                       ELSE {"none"}}

SetEngine(st) ==
    /\ cx' = st.cx
    /\ outgoing' = st.outgoing
    /\ pending' = st.pending
    /\ call_q' = st.call_q
    /\ cblog' = st.cblog
    /\ loop' = st.loop

Unread == nread < Len(incoming)
NextFrame == incoming[nread + 1]
\* requests and notifications the peer has sent so far
PeerSent == Cardinality({i \in DOMAIN incoming : incoming[i].type # "response"})
PeerAnswered == {incoming[i].id : i \in {j \in DOMAIN incoming : incoming[j].type = "response"}}

(***************************************************************************)
(* Actions of the peer                                                     *)
(***************************************************************************)
\* The peer writes its next frame once the read loop has taken the previous
\* one: writes commute with everything but the read they enable, so nothing
\* the engine can observe is lost.
PeerMayWrite == loop # "closed" /\ ~Unread

\* What the peer of the connection under study sends: well-formed and
\* malformed requests of both methods' kinds, and a notification
PeerFrames ==
    {[type |-> "request", method |-> "initialize", body |-> "ok"],
     [type |-> "request", method |-> "initialize", body |-> "bad"],
     [type |-> "request", method |-> "authenticate", body |-> "ok"],
     [type |-> "notification", method |-> "session/cancel", body |-> "ok"]}

PeerSend ==
    /\ PeerMayWrite
    /\ PeerSent < MaxFrames
    /\ \E f \in PeerFrames :
          incoming' = Append(incoming,
                             [type |-> f.type, id |-> Len(incoming) + 1,
                              method |-> f.method, body |-> f.body])
    /\ UNCHANGED <<chain, last, nread, loop, cx, handled, outgoing, pending, resolved,
                   call_q, responder, cblog>>
    /\ UNCHANGED extvars

\* the peer answers a request this side sent, once
PeerRespond ==
    /\ PeerMayWrite
    /\ \E i \in OutRequests(outgoing) :
          /\ outgoing[i].id \notin PeerAnswered
          /\ incoming' = Append(incoming, ResponseFrame(outgoing[i].id, "result", "none"))
    /\ UNCHANGED <<chain, last, nread, loop, cx, handled, outgoing, pending, resolved,
                   call_q, responder, cblog>>
    /\ UNCHANGED extvars

(***************************************************************************)
(* Read loop                                                               *)
(***************************************************************************)
\* The loop may read the next frame only when no handler is running on it
LoopReady == loop = "idle"

\* Read a request or notification and run the handler chain on it
DispatchMessage ==
    /\ LoopReady
    /\ Unread
    /\ NextFrame.type \in {"request", "notification"}
    /\ LET f == NextFrame
           m == MessageCx(f.type, f.method, f.body, 0, f.id)
           st0 == IF IsRequest(m) THEN [EngineState EXCEPT !.cx[m.id] = "live"]
                  ELSE EngineState
       IN \E beh \in BehChoices(chain, m) :
             LET r == ChainedHandler(chain, 1, m, beh)
             IN /\ SetEngine(AfterChain(ApplyFx(st0, r.fx, "loop", m.id), m, r))
                /\ handled' = [handled EXCEPT ![m.id] = Outcome(r)]
    /\ nread' = nread + 1
    /\ UNCHANGED <<chain, last, incoming, resolved, responder>>
    /\ UNCHANGED extvars

WaitersFor_Any(ps, id) == ps

\* the pending entry looked up for the id of an incoming response
WaitersFor(ps, id) == {w \in ps : w.oid = id}

\* Read a response and resolve the pending request it answers; a response
\* with an unknown id is discarded
DeliverResponse ==
    /\ LoopReady
    /\ Unread
    /\ NextFrame.type = "response"
    /\ LET f == NextFrame
           ws == WaitersFor(pending, f.id)
       IN IF ws = {}
          THEN UNCHANGED <<cx, outgoing, pending, call_q, cblog, loop, resolved>>
          ELSE LET w == CHOOSE x \in ws : TRUE
                   st0 == [EngineState EXCEPT !.pending = @ \ {w}]
               IN /\ SetEngine(IF w.kind = "forward"
                               THEN Respond(st0, w.id, f.method, f.body)
                               ELSE st0)
                  /\ resolved' = IF w.kind = "await" THEN resolved \cup {w.oid}
                                 ELSE resolved
    /\ nread' = nread + 1
    /\ UNCHANGED <<chain, last, incoming, handled, responder>>
    /\ UNCHANGED extvars

\* The transport signals EOF (the peer has closed and every frame it wrote
\* has been read): the loop ends and every pending request is resolved with
\* ConnectionClosed
ReadEof ==
    /\ LoopReady
    /\ ~Unread
    /\ loop' = "closed"
    /\ pending' = {}
    /\ resolved' = resolved \cup {w.oid : w \in {x \in pending : x.kind = "await"}}
    /\ UNCHANGED <<chain, last, incoming, nread, cx, handled, outgoing, call_q, responder, cblog>>
    /\ UNCHANGED extvars

(***************************************************************************)
(* Responders (RequestHandlerResponder::run)                               *)
(***************************************************************************)
Idle == [state |-> "idle", oid |-> 0, id |-> 0]
Awaiting(oid, id) == [state |-> "awaiting", oid |-> oid, id |-> id]

call_rx_next_Last(q) == [call |-> q[Len(q)], rest |-> SubSeq(q, 1, Len(q) - 1)]

\* call_rx.next(): the call enqueued first
call_rx_next(q) == [call |-> Head(q), rest |-> Tail(q)]

Stopped == [state |-> "stopped", oid |-> 0, id |-> 0]

after_call_Stops(b, oid, id) ==
    CASE b = "await" -> Awaiting(oid, id)
      [] RequestCallbackFails(b) -> Stopped
      [] OTHER -> Idle

\* the body of the responder's loop: the callback runs to its end or to the response it
\* awaits; an Err it returns is logged and the loop goes on
after_call(b, oid, id) == IF b = "await" THEN Awaiting(oid, id) ELSE Idle

\* call_rx.next(): take the next call and run the user callback on it.  An
\* Err from the callback is logged and the loop goes on.  A request sent on a
\* closed connection is resolved at once with the connection-closed error.
ResponderTake(idx) ==
    /\ chain[idx].kind = "RequestHandlerAsync"
    /\ responder[idx] = Idle
    /\ call_q[idx] # <<>>
    /\ LET id == call_rx_next(call_q[idx]).call
           st0 == [EngineState EXCEPT !.call_q[idx] = call_rx_next(@).rest]
       IN \E b \in RequestBeh :
             LET st1 == ApplyFx(st0, RequestCallbackFx(b, id, idx), "responder", nread)
             IN /\ SetEngine(IF b = "fail" THEN [st1 EXCEPT !.cx[id] = "dropped"] ELSE st1)
                /\ responder' = [responder EXCEPT ![idx] =
                                    after_call(b, NextOut(st0.outgoing), id)]
                /\ resolved' = IF b = "await" /\ loop = "closed"
                               THEN resolved \cup {NextOut(st0.outgoing)}
                               ELSE resolved
    /\ UNCHANGED <<chain, last, incoming, nread, handled>>
    /\ UNCHANGED extvars

\* the awaited response has arrived: the callback goes on, responds and ends
ResponderResume(idx) ==
    /\ responder[idx].state = "awaiting"
    /\ responder[idx].oid \in resolved
    /\ LET id == responder[idx].id
       IN SetEngine(ApplyFx(EngineState,
                            <<Fx("respond", id, idx, "result", "none"),
                              Fx("cb_end", id, idx, "await", "none")>>,
                            "responder", nread))
    /\ responder' = [responder EXCEPT ![idx] = Idle]
    /\ UNCHANGED <<chain, last, incoming, nread, handled, resolved>>
    /\ UNCHANGED extvars

(***************************************************************************)
(* Specification of a serving connection                                   *)
(***************************************************************************)
Handler(kind, method) == [kind |-> kind, method |-> method]

\* every typed handler a chain may hold
HandlerDescriptors ==
    {Handler(k, m) : k \in {"RequestHandler", "RequestHandlerSync", "RequestHandlerAsync"},
                     m \in RequestMethods}
    \cup {Handler("NotificationHandler", m) : m \in NotificationMethods}

\* the handlers the connection under study registers, in any order and number
ServingHandlers ==
    {Handler("RequestHandler", "initialize"),
     Handler("RequestHandlerSync", "initialize"),
     Handler("RequestHandlerAsync", "authenticate")}

ChainsOver(hs) == UNION {[1..n -> hs] : n \in 0..MaxChain}

NoResult == NullHandler(NoMessage) @@ [trace |-> <<>>]
NotDelivered == [delivered |-> FALSE, message |-> NoMessage, beh |-> <<>>, result |-> NoResult]

NothingOnWire == [stage |-> "idle"]

Registries == {1, 2}        \* positions of the registries in the chain
Callers == {1, 2}           \* tasks holding a handle of a registry
NoEntries == [k \in {} |-> k]
NotAdding == [st |-> "idle"]
NothingDispatched == [n |-> 0]
NothingAdded == [result |-> "none"]

\* Registries as McpServiceRegistry::new() leaves them, before any frame
RegistryIdle ==
    /\ registry = [r \in Registries |->
                      [registered_by_name |-> NoEntries, registered_by_url |-> NoEntries,
                       connections |-> {}]]
    /\ adding = [t \in Callers |-> NotAdding]
    /\ last_add = NothingAdded
    /\ mcp_server_rx = NoEntries
    /\ forwarder = NoEntries
    /\ component = NoEntries
    /\ mcp_out = <<>>
    /\ mcp_last = NothingDispatched
    /\ nframes = 0

\* The table of outgoing requests before the first request is sent
TableIdle ==
    /\ pending_requests = {}
    /\ handle = [id \in 1..MaxFrames |-> <<>>]
    /\ dropped = {}
    /\ from_peer = <<>>
    /\ transport = "open"
    /\ read_loop = "serving"

NothingSent == <<>>
ProxyIdle == [log |-> <<>>, out |-> <<>>, responses |-> <<>>]
NotServing ==
    [st |-> "new", mode |-> "none",
     tasks |-> <<[kind |-> "Null", st |-> "running", ready |-> [tag |-> "None"], at |-> 0]>>,
     loop |-> "reading", main |-> [tag |-> "None"], result |-> [tag |-> "None"],
     cause |-> "none", by |-> 0, events |-> 0]

\* A connection before it serves its first frame, with chain hs
Fresh(hs) ==
    /\ chain = hs
    /\ last = NotDelivered
    /\ incoming = <<>>
    /\ nread = 0
    /\ loop = "idle"
    /\ cx = [i \in Ids |-> "none"]
    /\ handled = [i \in Ids |-> NoOutcome]
    /\ outgoing = <<>>
    /\ pending = {}
    /\ resolved = {}
    /\ call_q = [i \in DOMAIN chain |-> <<>>]
    /\ responder = [i \in DOMAIN chain |-> Idle]
    /\ cblog = {}
    /\ TableIdle
    /\ wire = NothingOnWire
    /\ RegistryIdle
    /\ sends = NothingSent
    /\ proxy = ProxyIdle
    /\ served = NotServing

Init == \E hs \in ChainsOver(ServingHandlers) : Fresh(hs)

Next ==
    \/ PeerSend
    \/ PeerRespond
    \/ DispatchMessage
    \/ DeliverResponse
    \/ ReadEof
    \/ \E idx \in DOMAIN chain : ResponderTake(idx)
    \/ \E idx \in DOMAIN chain : ResponderResume(idx)

Spec == Init /\ [][Next]_vars

(***************************************************************************)
(* Specification of one run of a chain: any chain of typed handlers, any   *)
(* message, any choice of the callbacks, delivered to a fresh connection.  *)
(***************************************************************************)
Messages ==
    {MessageCx(k, me, b, v, 1) : k \in {"request", "notification"}, me \in Methods,
                                 b \in Bodies, v \in Vals}

Deliver ==
    /\ ~last.delivered
    /\ \E m \in Messages :
          LET st0 == IF IsRequest(m) THEN [EngineState EXCEPT !.cx[m.id] = "live"]
                     ELSE EngineState
          IN \E beh \in BehChoices(chain, m) :
                LET r == ChainedHandler(chain, 1, m, beh)
                IN /\ last' = [delivered |-> TRUE, message |-> m, beh |-> beh, result |-> r]
                   /\ SetEngine(AfterChain(ApplyFx(st0, r.fx, "loop", m.id), m, r))
                   /\ handled' = [handled EXCEPT ![m.id] = Outcome(r)]
                   /\ incoming' = <<[type |-> m.kind, id |-> m.id,
                                     method |-> m.method, body |-> m.body]>>
    /\ nread' = 1
    /\ UNCHANGED <<chain, resolved, responder>>
    /\ UNCHANGED extvars

InitChain == \E hs \in ChainsOver(HandlerDescriptors) : Fresh(hs)

SpecChain == InitChain /\ [][Deliver]_vars

(***************************************************************************)
(* Properties of one run of the chain                                      *)
(***************************************************************************)
\* what handler i of the chain returns by itself on the message it was given
OwnResult(i) ==
    IF i <= Len(chain)
    THEN handle_message(chain[i], i, last.result.trace[i].message, last.beh[i])
    ELSE NullHandler(last.result.trace[i].message)

\* C1: the handlers are invoked once each, left to right, each on the message
\* its predecessor returned, up to and including the first one that does not
\* decline; the first handler that claims gives the chain its Handled::Yes and
\* no later handler is invoked.  If every handler and the null handler
\* decline, the outcome is Handled::No with the last returned message and the
\* OR of all the retry bits.  (A handler that fails ends the run in the same
\* way with its error, see C7.)
C1_ChainFallThrough ==
    last.delivered =>
        LET r == last.result
            t == r.trace
            k == Len(t)
        IN /\ k \in 1..(Len(chain) + 1)
           /\ t[1].message = last.message
           /\ \A i \in 1..k : /\ t[i].idx = i
                              /\ t[i].handled = OwnResult(i).handled
                              /\ t[i].retry = OwnResult(i).retry
                              /\ t[i].out = OwnResult(i).message
           /\ \A i \in 1..(k - 1) : t[i].handled = "No" /\ t[i + 1].message = t[i].out
           /\ r.handled = t[k].handled
           /\ r.err = OwnResult(k).err
           /\ r.handled # "No" => k <= Len(chain)
           /\ r.handled = "No" => /\ k = Len(chain) + 1
                                  /\ r.message = t[k].out
                                  /\ r.retry = (\E i \in 1..k : t[i].retry)

\* a sync handler declined with retry and a rewritten request, and the
\* second handler claimed what it was handed
C1_Witness ==
    /\ last.delivered
    /\ Len(chain) = 2
    /\ Len(last.result.trace) = 2
    /\ last.result.trace[1].handled = "No"
    /\ last.result.trace[1].retry
    /\ last.result.trace[2].message # last.message
    /\ last.result.handled = "Yes"

\* handler h is of the typed kind that takes messages like m
KindMatches(h, m) ==
    IF h.kind = "NotificationHandler" THEN IsNotification(m) ELSE IsRequest(m)

\* the user callback of the handler at index i was invoked in the last run
Invoked(i) ==
    \E j \in DOMAIN last.result.fx :
        last.result.fx[j].op = "cb_start" /\ last.result.fx[j].idx = i

\* the typed request and notification handlers invoked in the last run
TypedInvocations ==
    {i \in DOMAIN last.result.trace :
        i <= Len(chain) /\ chain[i].kind \in {"RequestHandler", "NotificationHandler"}}

\* C6 (as stated): a typed handler invokes its callback iff the message is of
\* its kind, the method matches and the body parses; in every other case,
\* a matching method with a body that does not parse included, it returns
\* Handled::No with the message unmodified and retry = false.
C6_AsStated ==
    last.delivered =>
        \A i \in TypedInvocations :
            LET t == last.result.trace[i]
                wanted == /\ KindMatches(chain[i], t.message)
                          /\ t.message.method = chain[i].method
                          /\ t.message.body = "ok"
            IN /\ Invoked(i) <=> wanted
               /\ ~wanted => t.handled = "No" /\ t.out = t.message /\ ~t.retry

\* C6 (amended): a typed handler invokes its callback iff the message is of
\* its kind, the method matches and the body parses; a message of the other
\* kind or with another method is returned as Handled::No, unmodified, with
\* retry = false; a matching method with a body that does not parse makes
\* the handler fail with the parse error (InvalidParams), the callback not
\* invoked and nothing handed on.
C6_TypedHandler ==
    last.delivered =>
        \A i \in TypedInvocations :
            LET t == last.result.trace[i]
                mine == /\ KindMatches(chain[i], t.message)
                        /\ t.message.method = chain[i].method
            IN /\ Invoked(i) <=> (mine /\ t.message.body = "ok")
               /\ ~mine => t.handled = "No" /\ t.out = t.message /\ ~t.retry
               /\ mine /\ t.message.body = "bad" =>
                     /\ t.handled = "Err"
                     /\ t.out = NoMessage
                     /\ last.result.handled = "Err"
                     /\ last.result.err = "InvalidParams"

\* a typed request handler was given a request of its method whose body does
\* not parse, after a notification handler had declined it
C6_Witness ==
    /\ last.delivered
    /\ Len(chain) = 2
    /\ chain[1].kind = "NotificationHandler"
    /\ chain[2].kind = "RequestHandler"
    /\ Len(last.result.trace) = 2
    /\ last.message.method = chain[2].method
    /\ last.message.body = "bad"
    /\ last.result.trace[2].handled = "Err"

\* C7: a typed handler given a message of its kind with another method
\* declines and the next handler (or the null handler) is tried with the
\* same message; given its method with a malformed body it fails with
\* InvalidParams without invoking the callback, it is the last handler
\* invoked, the failure is the outcome of the chain, and a request is
\* answered with InvalidParams and nothing else (not MethodNotFound).
C7_TwoLevelParse ==
    last.delivered =>
        \A i \in {j \in DOMAIN last.result.trace : j <= Len(chain)} :
            LET t == last.result.trace[i]
                k == Len(last.result.trace)
            IN KindMatches(chain[i], t.message) =>
                 /\ t.message.method # chain[i].method =>
                       /\ t.handled = "No"
                       /\ i < k
                       /\ last.result.trace[i + 1].idx = i + 1
                       /\ last.result.trace[i + 1].message = t.message
                 /\ t.message.method = chain[i].method /\ t.message.body = "bad" =>
                       /\ t.handled = "Err"
                       /\ ~Invoked(i)
                       /\ i = k
                       /\ last.result.handled = "Err"
                       /\ last.result.err = "InvalidParams"
                       /\ handled[last.message.id] = [outcome |-> "Err", idx |-> i]
                       /\ outgoing = IF IsRequest(last.message)
                                     THEN <<ResponseFrame(last.message.id, "InvalidParams", "none")>>
                                     ELSE <<>>

\* the first handler failed on a malformed request that the second handler,
\* of the same method, was never given
C7_Witness ==
    /\ last.delivered
    /\ Len(chain) = 2
    /\ chain[1].method = chain[2].method
    /\ IsRequest(last.message)
    /\ last.message.method = chain[1].method
    /\ last.message.body = "bad"
    /\ Len(last.result.trace) = 1
    /\ outgoing = <<ResponseFrame(last.message.id, "InvalidParams", "none")>>

(***************************************************************************)
(* Properties of a serving connection                                      *)
(***************************************************************************)
\* ids of the requests the read loop has taken off the wire
ReadRequests == {i \in 1..nread : incoming[i].type = "request"}

\* the response frames written to the peer for request id
Responses(id) == {outgoing[i] : i \in ResponsesFor(outgoing, id)}

\* C2: when the chain returns Handled::No for a request, the step that
\* dispatched it writes the error response MethodNotFound with the request's
\* method as data, and that is the only response the request ever gets; when
\* the chain returns Handled::No for a notification, the step writes nothing
\* and the loop stays ready for the next frame.
C2_Unclaimed ==
    [][/\ (nread' = nread + 1 /\ handled'[nread + 1].outcome = "No") =>
              IF incoming[nread + 1].type = "request"
              THEN outgoing' = Append(outgoing,
                                      ResponseFrame(nread + 1, "MethodNotFound",
                                                    incoming[nread + 1].method))
              ELSE outgoing' = outgoing /\ loop' = "idle"
       /\ \A id \in 1..nread' :
              handled'[id].outcome = "No" =>
                 IF incoming'[id].type = "request"
                 THEN /\ Cardinality(ResponsesFor(outgoing', id)) = 1
                      /\ Responses(id)' =
                            {ResponseFrame(id, "MethodNotFound", incoming'[id].method)}
                 ELSE ResponsesFor(outgoing', id) = {}]_vars

\* an unclaimed notification was dropped, and a later unclaimed request was
\* answered with MethodNotFound carrying its method
C2_Witness ==
    \E i, j \in 1..nread :
        /\ i < j
        /\ incoming[i].type = "notification" /\ handled[i].outcome = "No"
        /\ incoming[j].type = "request" /\ handled[j].outcome = "No"
        /\ Len(outgoing) = 1
        /\ outgoing[1] = ResponseFrame(j, "MethodNotFound", incoming[j].method)

\* the in-line callbacks that ended for request id, by what they did
EndedInline(id, behs) ==
    \E e \in cblog : e.ev = "cb_end" /\ e.by = "loop" /\ e.id = id /\ e.beh \in behs

LoopCanRead == LoopReady /\ Unread
ResponderCanRun(idx) ==
    \/ /\ chain[idx].kind = "RequestHandlerAsync"
       /\ responder[idx] = Idle
       /\ call_q[idx] # <<>>
    \/ /\ responder[idx].state = "awaiting"
       /\ responder[idx].oid \in resolved
PeerOwesAnswer ==
    \E i \in OutRequests(outgoing) : outgoing[i].id \notin PeerAnswered
Quiescent ==
    /\ ~LoopCanRead
    /\ \A idx \in DOMAIN chain : ~ResponderCanRun(idx)
    /\ loop = "idle" => ~PeerOwesAnswer

Started(by) == {<<e.id, e.idx>> : e \in {x \in cblog : x.ev = "cb_start" /\ x.by = by}}
Ended(by) == {<<e.id, e.idx>> : e \in {x \in cblog : x.ev = "cb_end" /\ x.by = by}}

\* requests the chain handed to the responder handler at index idx
ClaimedAsync(idx) ==
    {id \in ReadRequests : handled[id] = [outcome |-> "Yes", idx |-> idx]}

InQueue(idx) == {call_q[idx][i] : i \in DOMAIN call_q[idx]}

\* C8: a request claimed by a responder handler is only queued: the chain
\* returns Handled::Yes, the callback never runs on the dispatch loop, and
\* the call is either still in the handler's queue, untouched, or was taken
\* by the responder; a callback suspended in a responder does not block the
\* read loop; and with the read loop reading, once the runtime has nothing
\* left to do no responder callback is still waiting for an answer: every
\* callback a responder started has completed.
C8_ResponderHandlers ==
    /\ \A idx \in DOMAIN chain :
          chain[idx].kind = "RequestHandlerAsync" =>
             /\ \A e \in cblog : e.idx = idx => e.by = "responder"
             /\ \A id \in ClaimedAsync(idx) :
                   IF id \in InQueue(idx)
                   THEN cx[id] = "live" /\ <<id, idx>> \notin Started("responder")
                   ELSE <<id, idx>> \in Started("responder")
             /\ InQueue(idx) \subseteq ClaimedAsync(idx)
             /\ responder[idx].state = "awaiting" =>
                   \/ \E w \in pending : w.oid = responder[idx].oid /\ w.by = "responder"
                   \/ responder[idx].oid \in resolved
    /\ loop = "blocked" => \E w \in pending : w.by = "loop" /\ chain[w.idx].kind \in InlineKinds
    /\ (Quiescent /\ loop # "blocked") =>
          /\ \A idx \in DOMAIN chain : responder[idx] = Idle /\ call_q[idx] = <<>>
          /\ Started("responder") = Ended("responder")

\* a responder's callback sent a request, the read loop read the peer's
\* answer meanwhile, and the callback completed and answered its request
C8_Witness ==
    \E e \in cblog :
        /\ e.ev = "cb_end" /\ e.by = "responder" /\ e.beh = "await"
        /\ chain[e.idx].kind = "RequestHandlerAsync"
        /\ Responses(e.id) = {ResponseFrame(e.id, "result", "none")}
        /\ loop = "idle"

\* the waiters of in-line callbacks: requests sent and awaited on the loop
InlineWaiters == {w \in pending : w.by = "loop" /\ w.kind = "await"}

\* C9: an in-line callback that sends a request and awaits the answer leaves
\* the dispatch loop blocked; from then on the loop reads no frame, so the
\* awaited request stays pending and unresolved even with the peer's answer
\* on the wire, the callback never ends, its own request gets no response,
\* and the loop stays blocked for good: nothing detects or breaks the state.
C9_InlineAwaitDeadlock ==
    [][/\ (\E e \in cblog' : e.ev = "cb_start" /\ e.by = "loop" /\ e.beh = "await")
            => loop' = "blocked"
       /\ loop = "blocked" =>
             /\ loop' = "blocked"
             /\ nread' = nread
             /\ InlineWaiters' = InlineWaiters
             /\ resolved' = resolved
       /\ loop' = "blocked" =>
             /\ Cardinality(InlineWaiters') = 1
             /\ \A w \in InlineWaiters' :
                   /\ w.oid \notin resolved'
                   /\ handled'[w.id] = [outcome |-> "Pending", idx |-> w.idx]
                   /\ <<w.id, w.idx>> \in Started("loop")' \ Ended("loop")'
                   /\ ResponsesFor(outgoing', w.id) = {}
                   /\ w.id = nread']_vars

\* the loop is blocked in an in-line callback whose awaited answer the peer
\* has written; the frame sits unread
C9_Witness ==
    /\ loop = "blocked"
    /\ Unread
    /\ \E w \in InlineWaiters :
          /\ chain[w.idx].kind = "RequestHandler"
          /\ NextFrame = ResponseFrame(w.oid, "result", "none")

\* the chain run for frame k came to its end
ChainCompleted(k) == handled[k].outcome \in {"Yes", "No", "Err"}

\* C10: frames are taken one at a time in arrival order; frame n+1 is read
\* only when the chain run of every earlier message has completed and every
\* in-line callback that started has ended; the in-line callbacks of message
\* n start and end within the step that dispatches frame n, and a request
\* claimed by an in-line handler has had its callback run in that step.
C10_Serialization ==
    [][/\ nread' \in {nread, nread + 1}
       /\ \A k \in 1..Len(incoming) : incoming'[k] = incoming[k]
       /\ nread' = nread + 1 =>
             /\ \A k \in 1..nread : incoming[k].type # "response" => ChainCompleted(k)
             /\ Started("loop") = Ended("loop")
             /\ \A k \in Ids \ {nread + 1} : handled'[k] = handled[k]
       /\ \A e \in cblog' \ cblog :
             e.by = "loop" => nread' = nread + 1 /\ e.id = nread' /\ e.at = nread'
       /\ \A k \in 1..nread' :
             (/\ handled'[k].outcome = "Yes"
              /\ handled'[k].idx \in DOMAIN chain
              /\ chain[handled'[k].idx].kind \in InlineKinds)
             => <<k, handled'[k].idx>> \in Started("loop")' \cap Ended("loop")']_vars

\* two requests were served one after the other by in-line callbacks, the
\* first having ended before the second was read
C10_Witness ==
    /\ nread = 2
    /\ \E i, j \in DOMAIN chain :
          /\ chain[i].kind \in InlineKinds /\ chain[j].kind \in InlineKinds
          /\ CbEvent("cb_end", 1, i, "respond", "loop", 1) \in cblog
          /\ CbEvent("cb_start", 2, j, "respond", "loop", 2) \in cblog

(***************************************************************************)
(* The table of outgoing requests (design document, sections 3, 4.4, 7).   *)
(* This side sends requests; each installs a one-shot slot and returns a   *)
(* handle.  The peer writes response frames with any id, in any number,    *)
(* and may close the transport at any time.                                *)
(***************************************************************************)
OutIds == 1..MaxFrames
Payloads == {"result", "error"}
ConnectionClosed == "ConnectionClosed"

Sent == {id \in OutIds : id \in pending_requests \/ handle[id] # <<>> \/ id \in dropped}
FreshId == Cardinality(Sent) + 1

Table(slots, hs) == [pending_requests |-> slots, handle |-> hs]

\* hand a value to the handle of slot id, unless the caller dropped the handle
Hand(hs, id, value) == IF id \in dropped THEN hs ELSE [hs EXCEPT ![id] = Append(@, value)]

ResolveSlot_KeepsSlot(slots, hs, id, value) ==
    IF id \in slots THEN Table(slots, Hand(hs, id, value)) ELSE Table(slots, hs)

\* the response demultiplexer: the slot is taken out of the table and resolved;
\* a response with an unknown id is discarded
ResolveSlot(slots, hs, id, value) ==
    IF id \in slots THEN Table(slots \ {id}, Hand(hs, id, value)) ELSE Table(slots, hs)

CloseSlots_Forgets(slots, hs) == Table({}, hs)

\* shut-down: every slot still in the table is resolved with ConnectionClosed
CloseSlots(slots, hs) ==
    Table({}, [id \in DOMAIN hs |-> IF id \in slots THEN Hand(hs, id, ConnectionClosed)[id]
                                    ELSE hs[id]])

SetTable(t) ==
    /\ pending_requests' = t.pending_requests
    /\ handle' = t.handle

\* the engine assigns a fresh id, installs the slot and returns the handle
SendRequest ==
    /\ read_loop = "serving"
    /\ FreshId \in OutIds
    /\ pending_requests' = pending_requests \cup {FreshId}
    /\ UNCHANGED <<handle, dropped, from_peer, transport, read_loop>>
    /\ UNCHANGED <<latevars, corevars, wire, mcpvars>>

\* the caller drops a handle it has not been handed a value on
DropHandle ==
    /\ \E id \in Sent \ dropped :
          /\ handle[id] = <<>>
          /\ dropped' = dropped \cup {id}
    /\ UNCHANGED <<pending_requests, handle, from_peer, transport, read_loop>>
    /\ UNCHANGED <<latevars, corevars, wire, mcpvars>>

PeerWritten == Len(from_peer) + Cardinality({id \in OutIds : handle[id] # <<>>})

\* the peer writes a response frame: any id, answered or not, sent or not
PeerResponse ==
    /\ transport = "open"
    /\ PeerWritten < MaxResponses
    /\ \E id \in OutIds, p \in Payloads :
          from_peer' = Append(from_peer, [id |-> id, payload |-> p])
    /\ UNCHANGED <<pending_requests, handle, dropped, transport, read_loop>>
    /\ UNCHANGED <<latevars, corevars, wire, mcpvars>>

\* the peer closes the transport; the frames already written stay readable
PeerClose ==
    /\ transport = "open"
    /\ transport' = "eof"
    /\ UNCHANGED <<pending_requests, handle, dropped, from_peer, read_loop>>
    /\ UNCHANGED <<latevars, corevars, wire, mcpvars>>

\* the read loop reads a response frame and resolves its waiter
ReadResponse ==
    /\ read_loop = "serving"
    /\ from_peer # <<>>
    /\ SetTable(ResolveSlot(pending_requests, handle, Head(from_peer).id,
                            Head(from_peer).payload))
    /\ from_peer' = Tail(from_peer)
    /\ UNCHANGED <<dropped, transport, read_loop>>
    /\ UNCHANGED <<latevars, corevars, wire, mcpvars>>

\* the transport signals EOF: the read loop ends and the table is closed
ReadShutdown ==
    /\ read_loop = "serving"
    /\ from_peer = <<>>
    /\ transport = "eof"
    /\ read_loop' = "ended"
    /\ SetTable(CloseSlots(pending_requests, handle))
    /\ UNCHANGED <<dropped, from_peer, transport>>
    /\ UNCHANGED <<latevars, corevars, wire, mcpvars>>

NextPending ==
    \/ SendRequest
    \/ DropHandle
    \/ PeerResponse
    \/ PeerClose
    \/ ReadResponse
    \/ ReadShutdown

InitPending == Fresh(<<>>)

SpecPending == InitPending /\ [][NextPending]_vars

\* the read loop is a task of the scheduler: it runs whenever it has a frame or EOF
FairSpecPending ==
    SpecPending /\ WF_vars(ReadResponse) /\ WF_vars(ReadShutdown)

\* C11: every handle of an outgoing request is handed at most one value, whatever the
\* peer writes (two responses with one id, a response followed by the close), and the
\* value is a success payload, an error payload or ConnectionClosed
C11_Pairing ==
    \A id \in OutIds :
        /\ Len(handle[id]) <= 1
        /\ \A k \in DOMAIN handle[id] : handle[id][k] \in Payloads \cup {ConnectionClosed}

\* a second response with the id of an answered request is waiting to be read
C11_Witness ==
    \E id \in OutIds :
        /\ handle[id] # <<>>
        /\ \E k \in DOMAIN from_peer : from_peer[k].id = id

\* C12: once the transport has signalled EOF the read loop ends, and ending it resolves
\* every slot still in the table with ConnectionClosed and leaves the table empty
C12_EofResolvesPending ==
    /\ [](transport = "eof" => <>(read_loop = "ended"))
    /\ [][read_loop = "serving" /\ read_loop' = "ended"
            => /\ pending_requests' = {}
               /\ \A id \in pending_requests \ dropped : handle'[id] = <<ConnectionClosed>>]_vars
    /\ [](read_loop = "ended" => pending_requests = {})

\* the loop has ended with a request unanswered: its handle holds ConnectionClosed
C12_Witness ==
    /\ read_loop = "ended"
    /\ \E id \in OutIds : handle[id] = <<ConnectionClosed>>

(***************************************************************************)
(* Envelopes (sacp/src/schema/proxy_protocol.rs).                          *)
(* A message type is a descriptor [name, arg]: arg is the type parameter   *)
(* of a generic envelope.  A JSON object is a record; a field that is not  *)
(* serialized is not in its domain.                                        *)
(***************************************************************************)
SUCCESSOR_REQUEST_METHOD == "_proxy/successor/request"
SUCCESSOR_NOTIFICATION_METHOD == "_proxy/successor/notification"
METHOD_MCP_CONNECT_REQUEST == "_mcp/connect"
METHOD_MCP_DISCONNECT_NOTIFICATION == "_mcp/disconnect"
METHOD_MCP_REQUEST == "_mcp/request"
METHOD_MCP_NOTIFICATION == "_mcp/notification"

Ty(name) == [name |-> name]
Generic(name, arg) == [name |-> name, arg |-> arg]

\* Option<serde_json::Value>
NoMeta == "None"
JsonNull == "null"
MetaValues == {JsonNull, "{trace:1}"}
Metas == {NoMeta} \cup MetaValues

ParseNone == [tag |-> "None"]
ParseOk(v) == [tag |-> "Ok", value |-> v]
ParseErr == [tag |-> "Err", error |-> "InvalidParams"]

UntypedMessage(method, params) == [method |-> method, params |-> params]

\* #[serde(skip_serializing_if = "Option::is_none")] meta: Some(v) is written, v = null included
with_meta(obj, meta) == IF meta = NoMeta THEN obj ELSE [meta |-> meta] @@ obj

meta_of_Skipped(obj) == NoMeta

\* deserializing an Option field: a missing field and a null give None
meta_of(obj) == IF "meta" \in DOMAIN obj /\ obj.meta # JsonNull THEN obj.meta ELSE NoMeta

\* #[serde(flatten)] of an UntypedMessage: its two fields become fields of the envelope
flatten(inner) == [method |-> inner.method, params |-> inner.params]
is_message(obj) == {"method", "params"} \subseteq DOMAIN obj

RECURSIVE to_untyped_message(_, _)
\* JrMessage::to_untyped_message of a value v of type ty
to_untyped_message(ty, v) ==
    CASE ty.name = "UntypedMessage" -> v
      [] ty.name = "McpConnectRequest" ->
            UntypedMessage(METHOD_MCP_CONNECT_REQUEST, with_meta([acp_url |-> v.acp_url], v.meta))
      [] ty.name = "McpDisconnectNotification" ->
            UntypedMessage(METHOD_MCP_DISCONNECT_NOTIFICATION,
                           with_meta([connection_id |-> v.connection_id], v.meta))
      [] ty.name = "NewSessionRequest" ->
            UntypedMessage("session/new", [mcpServers |-> v.mcp_servers])
      [] ty.name = "SuccessorRequest" ->
            UntypedMessage(SUCCESSOR_REQUEST_METHOD,
                           with_meta(flatten(to_untyped_message(ty.arg, v.request)), v.meta))
      [] ty.name = "SuccessorNotification" ->
            UntypedMessage(SUCCESSOR_NOTIFICATION_METHOD,
                           with_meta(flatten(to_untyped_message(ty.arg, v.notification)), v.meta))
      [] ty.name = "McpOverAcpRequest" ->
            UntypedMessage(METHOD_MCP_REQUEST,
                           with_meta([connectionId |-> v.connection_id]
                                       @@ flatten(to_untyped_message(ty.arg, v.request)), v.meta))
      [] ty.name = "McpOverAcpNotification" ->
            UntypedMessage(METHOD_MCP_NOTIFICATION,
                           with_meta([connectionId |-> v.connection_id]
                                       @@ flatten(to_untyped_message(ty.arg, v.notification)), v.meta))

\* as map_parse, but an embedded message of another type is an error
map_parse_ErrOnNone(r, v) == IF r.tag = "Ok" THEN ParseOk(v) ELSE ParseErr

\* the typed value built from an inner parse result r: Some(Ok) maps, Some(Err) and None pass
map_parse(r, v) == IF r.tag = "Ok" THEN ParseOk(v) ELSE r

RECURSIVE parse_typed(_, _, _, _)
\* JrMessage::parse_request (kind = "request") / parse_notification (kind =
\* "notification") of type ty on a method and its params
parse_typed(ty, kind, method, params) ==
    CASE ty.name = "UntypedMessage" -> ParseOk(UntypedMessage(method, params))
      [] ty.name = "McpConnectRequest" ->
            IF kind # "request" \/ method # METHOD_MCP_CONNECT_REQUEST THEN ParseNone
            ELSE IF "acp_url" \in DOMAIN params
                 THEN ParseOk([acp_url |-> params.acp_url, meta |-> meta_of(params)])
                 ELSE ParseErr
      [] ty.name = "McpDisconnectNotification" ->
            IF kind # "notification" \/ method # METHOD_MCP_DISCONNECT_NOTIFICATION
            THEN ParseNone
            ELSE IF "connection_id" \in DOMAIN params
                 THEN ParseOk([connection_id |-> params.connection_id, meta |-> meta_of(params)])
                 ELSE ParseErr
      [] ty.name = "NewSessionRequest" ->
            IF kind # "request" \/ method # "session/new" THEN ParseNone
            ELSE IF "mcpServers" \in DOMAIN params
                 THEN ParseOk([mcp_servers |-> params.mcpServers])
                 ELSE ParseErr
      [] ty.name = "SuccessorRequest" ->
            IF kind # "request" \/ method # SUCCESSOR_REQUEST_METHOD THEN ParseNone
            ELSE IF is_message(params)
                 THEN LET r == parse_typed(ty.arg, "request", params.method, params.params)
                      IN map_parse(r, [request |-> r.value, meta |-> meta_of(params)])
                 ELSE ParseErr
      [] ty.name = "SuccessorNotification" ->
            IF kind # "notification" \/ method # SUCCESSOR_NOTIFICATION_METHOD THEN ParseNone
            ELSE IF is_message(params)
                 THEN LET r == parse_typed(ty.arg, "notification", params.method, params.params)
                      IN map_parse(r, [notification |-> r.value, meta |-> meta_of(params)])
                 ELSE ParseErr
      [] ty.name = "McpOverAcpRequest" ->
            IF kind # "request" \/ method # METHOD_MCP_REQUEST THEN ParseNone
            ELSE IF is_message(params) /\ "connectionId" \in DOMAIN params
                 THEN LET r == parse_typed(ty.arg, "request", params.method, params.params)
                      IN map_parse(r, [connection_id |-> params.connectionId,
                                       request |-> r.value, meta |-> meta_of(params)])
                 ELSE ParseErr
      [] ty.name = "McpOverAcpNotification" ->
            IF kind # "notification" \/ method # METHOD_MCP_NOTIFICATION THEN ParseNone
            ELSE IF is_message(params) /\ "connectionId" \in DOMAIN params
                 THEN LET r == parse_typed(ty.arg, "notification", params.method, params.params)
                      IN map_parse(r, [connection_id |-> params.connectionId,
                                       notification |-> r.value, meta |-> meta_of(params)])
                 ELSE ParseErr

(***************************************************************************)
(* Specification of an envelope's round trip: any envelope is serialized   *)
(* with to_untyped_message and the frame is parsed back as the same type.  *)
(***************************************************************************)
U == Ty("UntypedMessage")
InnerMessages == {UntypedMessage(m, p) : m \in {"tools/list", "initialize"},
                                         p \in {[cursor |-> 0], [cursor |-> 1]}}
EnvelopeConnections == {<<"mcp-over-acp-connection", n>> : n \in {1, 2}}

RequestTypes == {"SuccessorRequest", "McpOverAcpRequest", "McpConnectRequest",
                 "NewSessionRequest"}
KindOf(ty) == IF ty.name \in RequestTypes THEN "request" ELSE "notification"

EnvelopeTypes ==
    {Generic("SuccessorRequest", U), Generic("SuccessorNotification", U),
     Generic("McpOverAcpRequest", U), Generic("McpOverAcpNotification", U),
     Generic("SuccessorRequest", Generic("McpOverAcpRequest", U)),
     Generic("SuccessorNotification", Generic("McpOverAcpNotification", U))}

RECURSIVE ValuesOf(_)
ValuesOf(ty) ==
    CASE ty.name = "UntypedMessage" -> InnerMessages
      [] ty.name = "SuccessorRequest" ->
            {[request |-> r, meta |-> m] : r \in ValuesOf(ty.arg), m \in Metas}
      [] ty.name = "SuccessorNotification" ->
            {[notification |-> r, meta |-> m] : r \in ValuesOf(ty.arg), m \in Metas}
      [] ty.name = "McpOverAcpRequest" ->
            {[connection_id |-> c, request |-> r, meta |-> m] :
                c \in EnvelopeConnections, r \in ValuesOf(ty.arg), m \in Metas}
      [] ty.name = "McpOverAcpNotification" ->
            {[connection_id |-> c, notification |-> r, meta |-> m] :
                c \in EnvelopeConnections, r \in ValuesOf(ty.arg), m \in Metas}

Serialize ==
    /\ wire.stage = "idle"
    /\ \E ty \in EnvelopeTypes :
          \E v \in ValuesOf(ty) :
             wire' = [stage |-> "serialized", ty |-> ty, sent |-> v,
                      frame |-> to_untyped_message(ty, v)]
    /\ UNCHANGED <<latevars, corevars, tablevars, mcpvars>>

Parse ==
    /\ wire.stage = "serialized"
    /\ wire' = [stage |-> "parsed", ty |-> wire.ty, sent |-> wire.sent, frame |-> wire.frame,
                parsed |-> parse_typed(wire.ty, KindOf(wire.ty), wire.frame.method,
                                       wire.frame.params)]
    /\ UNCHANGED <<latevars, corevars, tablevars, mcpvars>>

NextEnvelope ==
    \/ Serialize
    \/ Parse

InitEnvelope == Fresh(<<>>)

SpecEnvelope == InitEnvelope /\ [][NextEnvelope]_vars

RECURSIVE null_meta_as_none(_, _), has_null_meta(_, _)
\* the envelope v with every meta that is Some(null) replaced by None
null_meta_as_none(ty, v) ==
    CASE ty.name = "UntypedMessage" -> v
      [] ty.name \in {"SuccessorRequest", "McpOverAcpRequest"} ->
            [v EXCEPT !.meta = IF @ = JsonNull THEN NoMeta ELSE @,
                      !.request = null_meta_as_none(ty.arg, @)]
      [] ty.name \in {"SuccessorNotification", "McpOverAcpNotification"} ->
            [v EXCEPT !.meta = IF @ = JsonNull THEN NoMeta ELSE @,
                      !.notification = null_meta_as_none(ty.arg, @)]

has_null_meta(ty, v) == null_meta_as_none(ty, v) # v

\* C20 as stated: the envelope parsed back is the envelope serialized, for every meta
C20_AsStated ==
    wire.stage = "parsed" => wire.parsed = ParseOk(wire.sent)

\* C20: an envelope serialized and parsed back (successor envelopes, MCP-over-ACP
\* envelopes and their nestings) parses, and has the embedded method, the embedded
\* params and the connection_id of the original; its meta is the original's unless the
\* original's is JSON null, which comes back as no meta
C20_Transparency ==
    wire.stage = "parsed" =>
        /\ wire.parsed = ParseOk(null_meta_as_none(wire.ty, wire.sent))
        /\ ~has_null_meta(wire.ty, wire.sent) => wire.parsed = ParseOk(wire.sent)

\* a successor envelope around an MCP-over-ACP request, each with a meta, came back whole
C20_Witness ==
    /\ wire.stage = "parsed"
    /\ wire.ty = Generic("SuccessorRequest", Generic("McpOverAcpRequest", U))
    /\ wire.sent.meta \in MetaValues \ {JsonNull}
    /\ wire.sent.request.meta \in MetaValues \ {JsonNull}
    /\ wire.parsed = ParseOk(wire.sent)

(***************************************************************************)
(* MCP service registry (sacp/src/mcp_server/registry.rs).                 *)
(* A registry handler returns what handle_message returns together with    *)
(* the registry data it leaves and the effects it had on the connection.   *)
(***************************************************************************)
McpServiceRegistryData(by_name, by_url, conns) ==
    [registered_by_name |-> by_name, registered_by_url |-> by_url, connections |-> conns]


RegisteredMcpServer(name, url) == [name |-> name, url |-> url]

\* format!("acp:{uuid}") and format!("mcp-over-acp-connection:{}", Uuid::new_v4()).
\* Uuid::new_v4() gives a value no other call gives: the uuid drawn by an add_mcp_server
\* call is named by the call (registry, name, caller), the uuid drawn while handling a
\* frame by the number of the frame.
AcpUrl(uuid) == <<"acp", uuid>>
ConnectionId(uuid) == <<"mcp-over-acp-connection", uuid>>
NoUuid == <<0, "none", 0>>
NoConnection == ConnectionId(0)

get_registered_server_by_name_Misses(data, name) == FALSE

get_registered_server_by_name(data, name) == name \in DOMAIN data.registered_by_name
get_registered_server_by_url(data, url) == url \in DOMAIN data.registered_by_url

\* HashMap::insert into both maps: an entry under the same key is replaced
insert_registered_server(data, service) ==
    [data EXCEPT !.registered_by_name = (service.name :> service) @@ @,
                 !.registered_by_url = (service.url :> service) @@ @]

insert_connection_Skipped(data, connection_id) == data

\* the connections map holds the Sender of the connection's channel; the channel of a
\* connection is named by the connection id
insert_connection(data, connection_id) ==
    [data EXCEPT !.connections = @ \cup {connection_id}]
get_connection(data, connection_id) == connection_id \in data.connections
remove_connection(data, connection_id) ==
    [data EXCEPT !.connections = @ \ {connection_id}]

\* RegisteredMcpServer::acp_mcp_server: McpServer::Http { name, url, headers: vec![] }
acp_mcp_server(server) == [type |-> "http", name |-> server.name, url |-> server.url]

RECURSIVE acp_mcp_servers(_, _)
acp_mcp_servers(data, order) ==
    IF order = <<>> THEN <<>>
    ELSE <<acp_mcp_server(data.registered_by_url[Head(order)])>>
            \o acp_mcp_servers(data, Tail(order))

add_registered_mcp_servers_to_Twice(data, request, order) ==
    [request EXCEPT !.mcp_servers = @ \o acp_mcp_servers(data, order)
                                      \o acp_mcp_servers(data, order)]

\* add_registered_mcp_servers_to: push one entry per value of registered_by_url, in the
\* order the hash map iterates (`order` enumerates its keys)
add_registered_mcp_servers_to(data, request, order) ==
    [request EXCEPT !.mcp_servers = @ \o acp_mcp_servers(data, order)]

\* effects of a registry handler
McpFx(op, id, connection_id, payload) ==
    [op |-> op, id |-> id, connection_id |-> connection_id, payload |-> payload]

NoValue == [none |-> TRUE]
McpYes(data, fx) == [handled |-> "Yes", value |-> NoValue, data |-> data, fx |-> fx]
McpNo(value, data, fx) == [handled |-> "No", value |-> value, data |-> data, fx |-> fx]
McpErr(data, fx) == [handled |-> "Err", value |-> NoValue, data |-> data, fx |-> fx]

SpawnResults == {"ok", "client_failed", "server_failed"}

\* what a handler run draws from outside the registry: the next uuid, whether the two
\* spawns succeed, the iteration order of registered_by_url, and the connections whose
\* channel still has its receiver
Env(uuid, spawns, order, receivers) ==
    [uuid |-> uuid, spawns |-> spawns, order |-> order, receivers |-> receivers]

handle_connect_request_KnowsAll(data, request, id, env) ==
    LET connection_id == ConnectionId(env.uuid)
    IN McpYes(insert_connection(data, connection_id),
              <<McpFx("respond", id, connection_id, "connection_id")>>)

handle_connect_request(data, request, id, env) ==
    IF ~get_registered_server_by_url(data, request.acp_url)
    THEN McpNo(request, data, <<>>)
    ELSE LET connection_id == ConnectionId(env.uuid)
             data1 == insert_connection(data, connection_id)
             new_server == McpFx("new_server", id, connection_id, request.acp_url)
             client == McpFx("spawn_client", id, connection_id, "none")
             server == McpFx("spawn_server", id, connection_id, request.acp_url)
         IN CASE env.spawns = "ok" ->
                    McpYes(data1, <<new_server, client, server,
                                    McpFx("respond", id, connection_id, "connection_id")>>)
              [] env.spawns = "client_failed" ->
                    McpYes(data1, <<new_server,
                                    McpFx("respond", id, connection_id, "error")>>)
              [] env.spawns = "server_failed" ->
                    McpYes(data1, <<new_server, client,
                                    McpFx("respond", id, connection_id, "error")>>)

handle_mcp_over_acp_request_Broadcast(data, request, id, env) ==
    IF data.connections = {} THEN McpNo(request, data, <<>>)
    ELSE LET c == CHOOSE x \in data.connections : TRUE
         IN McpYes(data, <<McpFx("send", id, c, [kind |-> "request",
                                                 message |-> request.request])>>)

\* mcp_server_tx.send(MessageAndCx::Request(request.request, request_cx)): an error
\* when the channel's receiver is gone
handle_mcp_over_acp_request(data, request, id, env) ==
    IF ~get_connection(data, request.connection_id) THEN McpNo(request, data, <<>>)
    ELSE IF request.connection_id \notin env.receivers THEN McpErr(data, <<>>)
    ELSE McpYes(data, <<McpFx("send", id, request.connection_id,
                              [kind |-> "request", message |-> request.request])>>)

\* as handle_mcp_over_acp_notification, but a notification for an unknown connection
\* is claimed and dropped
handle_mcp_over_acp_notification_Claims(data, notification, id, env) ==
    IF ~get_connection(data, notification.connection_id) THEN McpYes(data, <<>>)
    ELSE IF notification.connection_id \notin env.receivers THEN McpErr(data, <<>>)
    ELSE McpYes(data, <<McpFx("send", id, notification.connection_id,
                              [kind |-> "notification",
                               message |-> notification.notification])>>)

handle_mcp_over_acp_notification(data, notification, id, env) ==
    IF ~get_connection(data, notification.connection_id) THEN McpNo(notification, data, <<>>)
    ELSE IF notification.connection_id \notin env.receivers THEN McpErr(data, <<>>)
    ELSE McpYes(data, <<McpFx("send", id, notification.connection_id,
                              [kind |-> "notification",
                               message |-> notification.notification])>>)

handle_mcp_disconnect_notification_Keeps(data, notification, id, env) ==
    IF get_connection(data, notification.connection_id)
    THEN McpYes(data, <<>>)
    ELSE McpNo(notification, data, <<>>)

handle_mcp_disconnect_notification(data, notification, id, env) ==
    IF get_connection(data, notification.connection_id)
    THEN McpYes(remove_connection(data, notification.connection_id), <<>>)
    ELSE McpNo(notification, data, <<>>)

handle_new_session_request(data, request, id, env) ==
    McpNo(add_registered_mcp_servers_to(data, request, env.order), data, <<>>)

handle_successor_request_DropsMeta(r, successor_request) ==
    IF r.handled = "No"
    THEN [r EXCEPT !.value = [request |-> r.value, meta |-> NoMeta]]
    ELSE r

\* handle_successor_request, given the result r of the inner handler `op`: on No the
\* envelope is rebuilt as SuccessorRequest { request, ..successor_request }
handle_successor_request(r, successor_request) ==
    IF r.handled = "No"
    THEN [r EXCEPT !.value = [request |-> r.value, meta |-> successor_request.meta]]
    ELSE r

handle_successor_notification(r, successor_notification) ==
    IF r.handled = "No"
    THEN [r EXCEPT !.value = [notification |-> r.value, meta |-> successor_notification.meta]]
    ELSE r

RECURSIVE handle_typed(_, _, _, _, _)
\* the handler handle_message gives to the matcher of type ty, run on the parsed value v
handle_typed(ty, data, v, id, env) ==
    CASE ty.name = "McpConnectRequest" -> handle_connect_request(data, v, id, env)
      [] ty.name = "McpOverAcpRequest" -> handle_mcp_over_acp_request(data, v, id, env)
      [] ty.name = "McpOverAcpNotification" ->
            handle_mcp_over_acp_notification(data, v, id, env)
      [] ty.name = "McpDisconnectNotification" ->
            handle_mcp_disconnect_notification(data, v, id, env)
      [] ty.name = "NewSessionRequest" -> handle_new_session_request(data, v, id, env)
      [] ty.name = "SuccessorRequest" ->
            handle_successor_request(handle_typed(ty.arg, data, v.request, id, env), v)
      [] ty.name = "SuccessorNotification" ->
            handle_successor_notification(
                handle_typed(ty.arg, data, v.notification, id, env), v)

\* the matchers of McpServiceRegistry::handle_message, in order
Matchers ==
    <<Ty("McpConnectRequest"),
      Generic("SuccessorRequest", Ty("McpConnectRequest")),
      Generic("McpOverAcpRequest", U),
      Generic("SuccessorRequest", Generic("McpOverAcpRequest", U)),
      Ty("NewSessionRequest"),
      Generic("SuccessorRequest", Ty("NewSessionRequest")),
      Generic("McpOverAcpNotification", U),
      Generic("SuccessorNotification", Generic("McpOverAcpNotification", U)),
      Ty("McpDisconnectNotification"),
      Generic("SuccessorNotification", Ty("McpDisconnectNotification"))>>

\* a message of the chain: MessageAndCx::Request(message, request_cx) / Notification
McpMessage(kind, id, method, params) ==
    [kind |-> kind, id |-> id, method |-> method, params |-> params]

Untyped(m) == UntypedMessage(m.method, m.params)
Retyped(m, u) == McpMessage(m.kind, m.id, u.method, u.params)

RECURSIVE MatchMessage(_, _, _, _, _, _)
\* util::MatchMessage: each matcher whose type parses the message runs its handler; on
\* No the returned value is made a message again and offered to the later matchers
MatchMessage(k, data, m, env, fx, matched) ==
    IF k > Len(Matchers)
    THEN [handled |-> "No", message |-> m, data |-> data, fx |-> fx, matched |-> matched]
    ELSE LET ty == Matchers[k]
             p == IF KindOf(ty) = m.kind THEN parse_typed(ty, m.kind, m.method, m.params)
                  ELSE ParseNone
         IN CASE p.tag = "None" -> MatchMessage(k + 1, data, m, env, fx, matched)
              [] p.tag = "Err" ->
                    [handled |-> "Err", message |-> m, data |-> data, fx |-> fx,
                     matched |-> matched]
              [] p.tag = "Ok" ->
                    LET r == handle_typed(ty, data, p.value, m.id, env)
                    IN IF r.handled = "No"
                       THEN MatchMessage(k + 1, r.data,
                                         Retyped(m, to_untyped_message(ty, r.value)), env,
                                         fx \o r.fx, Append(matched, k))
                       ELSE [handled |-> r.handled, message |-> m, data |-> r.data,
                             fx |-> fx \o r.fx, matched |-> Append(matched, k)]

\* McpServiceRegistry::handle_message
McpServiceRegistry_handle_message(data, m, env) == MatchMessage(1, data, m, env, <<>>, <<>>)

(***************************************************************************)
(* Registries in a chain, their add_mcp_server callers, the forwarding     *)
(* tasks and the server components.                                        *)
(***************************************************************************)
ServerNames == {"fs", "git"}

Registered == UNION {DOMAIN registry[r].registered_by_url : r \in Registries}
InFlight == {t \in Callers : adding[t] # NotAdding}

\* add_mcp_server_internal up to the name check: the name is looked up under the lock;
\* a registered name returns the error at once
AddCheck(t, r, name) ==
    /\ adding[t] = NotAdding
    /\ IF get_registered_server_by_name(registry[r], name)
       THEN /\ last_add' = [r |-> r, name |-> name, result |-> "Err", before |-> registry]
            /\ UNCHANGED adding
       ELSE /\ Cardinality(Registered) + Cardinality(InFlight) < MaxServers
            /\ adding' = [adding EXCEPT ![t] = [st |-> "checked", r |-> r, name |-> name]]
            /\ last_add' = NothingAdded
    /\ mcp_last' = NothingDispatched
    /\ UNCHANGED <<registry, mcp_server_rx, forwarder, component, mcp_out, nframes>>
    /\ UNCHANGED <<latevars, corevars, tablevars, wire>>

\* add_mcp_server_internal after the check: a fresh url, insert_registered_server under
\* the lock taken again, Ok(())
AddInsert(t) ==
    /\ adding[t] # NotAdding
    /\ LET service == RegisteredMcpServer(adding[t].name,
                                          AcpUrl(<<adding[t].r, adding[t].name, t>>))
       IN /\ registry' = [registry EXCEPT
                            ![adding[t].r] = insert_registered_server(@, service)]
          /\ last_add' = [r |-> adding[t].r, name |-> adding[t].name, result |-> "Ok",
                          before |-> registry, url |-> service.url]
    /\ adding' = [adding EXCEPT ![t] = NotAdding]
    /\ mcp_last' = NothingDispatched
    /\ UNCHANGED <<mcp_server_rx, forwarder, component, mcp_out, nframes>>
    /\ UNCHANGED <<latevars, corevars, tablevars, wire>>

Orders(S) == {o \in [1..Cardinality(S) -> S] : \A i, j \in DOMAIN o : o[i] = o[j] => i = j}

KnownConnections == DOMAIN component
Receivers == {c \in DOMAIN forwarder : forwarder[c] = "running"}

OwnServer == [type |-> "stdio", name |-> "own", url |-> <<"cmd", 0>>]

\* the typed messages a peer may send, by type
PeerValues(ty) ==
    CASE ty.name = "McpConnectRequest" ->
            {[acp_url |-> u, meta |-> NoMeta] : u \in Registered \cup {AcpUrl(NoUuid)}}
      [] ty.name = "McpOverAcpRequest" ->
            {[connection_id |-> c, meta |-> NoMeta,
              request |-> UntypedMessage("tools/list", [cursor |-> 0])] :
                c \in KnownConnections \cup {NoConnection}}
      [] ty.name = "McpOverAcpNotification" ->
            {[connection_id |-> c, meta |-> NoMeta,
              notification |-> UntypedMessage("notifications/initialized", [cursor |-> 0])] :
                c \in KnownConnections \cup {NoConnection}}
      [] ty.name = "McpDisconnectNotification" ->
            {[connection_id |-> c, meta |-> NoMeta] :
                c \in KnownConnections \cup {NoConnection}}
      [] ty.name = "NewSessionRequest" ->
            {[mcp_servers |-> <<OwnServer>>]}

BareTypes == {Ty("McpConnectRequest"), Generic("McpOverAcpRequest", U),
              Generic("McpOverAcpNotification", U), Ty("McpDisconnectNotification"),
              Ty("NewSessionRequest")}

FrameMetas == {NoMeta, JsonNull, "{trace:1}"}

\* the frames a peer may write: each message bare and inside a successor envelope, and
\* a tunnelled request under the method name "_mcp/message"
PeerMessages(id) ==
    LET typed == UNION {{[ty |-> ty, v |-> v] : v \in PeerValues(ty)} : ty \in BareTypes}
        frame(b) == McpMessage(KindOf(b.ty), id, to_untyped_message(b.ty, b.v).method,
                               to_untyped_message(b.ty, b.v).params)
        wrap(f, meta) ==
            McpMessage(f.kind, id,
                       IF f.kind = "request" THEN SUCCESSOR_REQUEST_METHOD
                       ELSE SUCCESSOR_NOTIFICATION_METHOD,
                       with_meta(flatten(Untyped(f)), meta))
        bares == {frame(b) : b \in typed}
        renamed == {McpMessage(f.kind, id, "_mcp/message", f.params) :
                       f \in {g \in bares : g.method = METHOD_MCP_REQUEST}}
    IN bares \cup renamed \cup {wrap(f, meta) : f \in bares, meta \in FrameMetas}
             \cup {wrap(f, NoMeta) : f \in renamed}

\* the effects of a registry handler applied to the connections' channels, tasks and
\* components and to the frames written to the peer
McpState ==
    [mcp_server_rx |-> mcp_server_rx, forwarder |-> forwarder, component |-> component,
     mcp_out |-> mcp_out]

McpResponse(id, payload, connection_id) ==
    [id |-> id, payload |-> payload, connection_id |-> connection_id]

mcp_server_tx_send_Front(q, item) == <<item>> \o q

\* mcp_server_tx.send(..).await: the item is put at the back of the connection's channel
mcp_server_tx_send(q, item) == Append(q, item)

McpApplyOne(st, e) ==
    CASE e.op = "new_server" ->
            [st EXCEPT !.component = (e.connection_id :>
                          [url |-> e.payload, serving |-> FALSE, received |-> <<>>]) @@ @]
      [] e.op = "spawn_client" ->
            [st EXCEPT !.forwarder = (e.connection_id :> "running") @@ @,
                       !.mcp_server_rx = (e.connection_id :> <<>>) @@ @]
      [] e.op = "spawn_server" ->
            [st EXCEPT !.component[e.connection_id].serving = TRUE]
      [] e.op = "send" ->
            [st EXCEPT !.mcp_server_rx[e.connection_id] =
                          mcp_server_tx_send(@, [kind |-> e.payload.kind, id |-> e.id,
                                                 message |-> e.payload.message])]
      [] e.op = "respond" ->
            [st EXCEPT !.mcp_out = Append(@, McpResponse(e.id, e.payload, e.connection_id))]

RECURSIVE McpApplyFx(_, _)
McpApplyFx(st, fx) ==
    IF fx = <<>> THEN st ELSE McpApplyFx(McpApplyOne(st, Head(fx)), Tail(fx))

SetMcp(st) ==
    /\ mcp_server_rx' = st.mcp_server_rx
    /\ forwarder' = st.forwarder
    /\ component' = st.component
    /\ mcp_out' = st.mcp_out

\* what the chain after the registries does with the outcome: an unclaimed request is
\* answered by the default handler, a handler's error is sent as the request's response
AfterRegistries(st, m, outcome) ==
    IF m.kind # "request" \/ outcome = "Yes" THEN st
    ELSE IF outcome = "Err"
         THEN McpApplyOne(st, McpFx("respond", m.id, NoConnection, "InternalError"))
         ELSE McpApplyOne(st, McpFx("respond", m.id, NoConnection,
                                    default_message_handler(m).code))

RegistryResult(r) ==
    [handled |-> r.handled, message |-> r.message, matched |-> r.matched, fx |-> r.fx]

\* the message m runs through the registries in chain order, each with its own draws
RECURSIVE RunRegistries(_, _, _, _, _)
RunRegistries(r, regs, m, envs, results) ==
    IF r \notin Registries
    THEN [handled |-> "No", message |-> m, registry |-> regs, results |-> results]
    ELSE LET res == McpServiceRegistry_handle_message(regs[r], m, envs[r])
             regs1 == [regs EXCEPT ![r] = res.data]
             results1 == Append(results, RegistryResult(res))
         IN IF res.handled = "No"
            THEN RunRegistries(r + 1, regs1, res.message, envs, results1)
            ELSE [handled |-> res.handled, message |-> res.message, registry |-> regs1,
                  results |-> results1]

RECURSIVE AllFx(_)
AllFx(results) == IF results = <<>> THEN <<>> ELSE Head(results).fx \o AllFx(Tail(results))

\* the method of a message, or of the message inside a successor envelope
InnerMethod(m) ==
    IF m.method \in {SUCCESSOR_REQUEST_METHOD, SUCCESSOR_NOTIFICATION_METHOD}
       /\ is_message(m.params)
    THEN m.params.method ELSE m.method

\* the draws of the registries' handlers for frame m: only session/new iterates the
\* url map, only a connect spawns
OrdersFor(m, r) ==
    IF InnerMethod(m) = "session/new" THEN Orders(DOMAIN registry[r].registered_by_url)
    ELSE {CHOOSE o \in Orders(DOMAIN registry[r].registered_by_url) : TRUE}
SpawnsFor(m) ==
    IF InnerMethod(m) = METHOD_MCP_CONNECT_REQUEST THEN SpawnResults ELSE {"ok"}

Envs(m, spawns) ==
    {[r \in Registries |-> Env(m.id, spawns, o[r], Receivers)] :
        o \in {f \in [Registries -> UNION {OrdersFor(m, r) : r \in Registries}] :
                 \A r \in Registries : f[r] \in OrdersFor(m, r)}}

\* the read loop dispatches frame m to the chain; `spawns` is how the spawns of a
\* connect go, should a registry claim it
Dispatch(m, spawns) ==
    /\ \E run \in {RunRegistries(1, registry, m, envs, <<>>) @@ [envs |-> envs] :
                        envs \in Envs(m, spawns)} :
          /\ spawns # "ok" =>
                \E k \in DOMAIN run.results :
                   \E j \in DOMAIN run.results[k].fx :
                      run.results[k].fx[j].op = "new_server"
          /\ registry' = run.registry
          /\ SetMcp(AfterRegistries(McpApplyFx(McpState, AllFx(run.results)), m, run.handled))
          /\ mcp_last' = [n |-> m.id, message |-> m, handled |-> run.handled,
                          out |-> run.message, results |-> run.results, spawns |-> spawns,
                          envs |-> run.envs,
                          before |-> [registry |-> registry, state |-> McpState]]
    /\ nframes' = nframes + 1
    /\ last_add' = NothingAdded
    /\ UNCHANGED adding
    /\ UNCHANGED <<latevars, corevars, tablevars, wire>>

\* the peer writes any frame
DispatchMcp ==
    /\ nframes < MaxFrames
    /\ \E m \in PeerMessages(nframes + 1) : \E spawns \in SpawnsFor(m) : Dispatch(m, spawns)

\* the forwarding task of connection c: `while let Some(msg) = mcp_server_rx.next().await
\* { mcp_cx.send_proxied_message(msg)?; }`.  next() gives None once the queue is empty
\* and no registry holds the channel's sender.
Forward(c) ==
    /\ forwarder[c] = "running"
    /\ IF mcp_server_rx[c] # <<>>
       THEN IF component[c].serving
            THEN /\ component' = [component EXCEPT ![c].received =
                                     Append(@, Head(mcp_server_rx[c]))]
                 /\ mcp_server_rx' = [mcp_server_rx EXCEPT ![c] = Tail(@)]
                 /\ UNCHANGED forwarder
            ELSE /\ forwarder' = [forwarder EXCEPT ![c] = "failed"]
                 /\ UNCHANGED <<component, mcp_server_rx>>
       ELSE /\ \A r \in Registries : ~get_connection(registry[r], c)
            /\ forwarder' = [forwarder EXCEPT ![c] = "ended"]
            /\ UNCHANGED <<component, mcp_server_rx>>
    /\ UNCHANGED <<registry, adding, last_add, mcp_out, mcp_last, nframes>>
    /\ UNCHANGED <<latevars, corevars, tablevars, wire>>

Answered(id) == \E k \in DOMAIN mcp_out : mcp_out[k].id = id

\* the server component of connection c answers a request it received; the answer is
\* routed to the request context that travelled with the request
ComponentReply(c) ==
    /\ \E k \in DOMAIN component[c].received :
          /\ component[c].received[k].kind = "request"
          /\ ~Answered(component[c].received[k].id)
          /\ mcp_out' = Append(mcp_out, McpResponse(component[c].received[k].id, "result", c))
    /\ UNCHANGED <<registry, adding, last_add, mcp_server_rx, forwarder, component,
                   mcp_last, nframes>>
    /\ UNCHANGED <<latevars, corevars, tablevars, wire>>

NextRegistry ==
    \/ \E r \in Registries, name \in ServerNames : AddCheck(1, r, name)
    \/ AddInsert(1)
    \/ DispatchMcp

InitRegistry == Fresh(<<>>)

SpecRegistry == InitRegistry /\ [][NextRegistry]_vars

(***************************************************************************)
(* Properties of the registries: add_mcp_server and one dispatched frame   *)
(***************************************************************************)
Dispatched == mcp_last # NothingDispatched
\* the message registry k of the chain was given, and what it returned
GivenTo(k) == IF k = 1 THEN mcp_last.message ELSE mcp_last.results[k - 1].message
Reached(k) == Dispatched /\ k \in DOMAIN mcp_last.results
IsWrapped(m) == m.method \in {SUCCESSOR_REQUEST_METHOD, SUCCESSOR_NOTIFICATION_METHOD}
\* the message itself, or the message inside the successor envelope
Inner(m) == IF IsWrapped(m) THEN McpMessage(m.kind, m.id, m.params.method, m.params.params)
            ELSE m
SessionServers(m) == Inner(m).params.mcpServers
ServersOf(data) == {data.registered_by_url[u] : u \in DOMAIN data.registered_by_url}
ResponsesTo(id) == {k \in DOMAIN mcp_out : mcp_out[k].id = id}

\* C13: an add_mcp_server call returns the error exactly when the name is registered,
\* and then leaves both maps as they were (the server keeps its url); a call that
\* returns Ok has put the server in both maps, and every session/new request that has
\* passed a registry carries an entry for each server of that registry
C13_RegistryUniqueness ==
    /\ last_add.result = "Err" =>
          /\ last_add.name \in DOMAIN last_add.before[last_add.r].registered_by_name
          /\ registry = last_add.before
    /\ last_add.result = "Ok" =>
          /\ last_add.name \notin DOMAIN last_add.before[last_add.r].registered_by_name
          /\ registry[last_add.r].registered_by_name[last_add.name].url = last_add.url
          /\ registry[last_add.r].registered_by_url[last_add.url].name = last_add.name
    /\ \A r \in Registries :
          Reached(r) /\ InnerMethod(mcp_last.message) = "session/new" =>
             \A server \in ServersOf(mcp_last.before.registry[r]) :
                \E i \in DOMAIN SessionServers(mcp_last.out) :
                   SessionServers(mcp_last.out)[i] = acp_mcp_server(server)

\* a second add under a registered name has just returned the error
C13_Witness ==
    /\ last_add.result = "Err"
    /\ last_add.name \in DOMAIN registry[last_add.r].registered_by_name

\* C14: a registry given a session/new request, bare or wrapped, returns Handled::No
\* with the same request context and the request's mcp_servers followed by exactly one
\* entry per registered server; one matcher ran, and the registry wrote no response
C14_SessionNew ==
    \A r \in Registries :
       Reached(r) /\ InnerMethod(mcp_last.message) = "session/new" =>
          LET res == mcp_last.results[r]
              data == mcp_last.before.registry[r]
              added == SubSeq(SessionServers(res.message),
                              Len(SessionServers(GivenTo(r))) + 1,
                              Len(SessionServers(res.message)))
          IN /\ res.handled = "No"
             /\ res.fx = <<>>
             /\ Len(res.matched) = 1
             /\ res.message.id = GivenTo(r).id
             /\ res.message.kind = "request"
             /\ res.message.method = GivenTo(r).method
             /\ SubSeq(SessionServers(res.message), 1, Len(SessionServers(GivenTo(r))))
                   = SessionServers(GivenTo(r))
             /\ Len(added) = Cardinality(ServersOf(data))
             /\ {added[i] : i \in DOMAIN added} = {acp_mcp_server(x) : x \in ServersOf(data)}
             /\ registry[r] = data

\* a wrapped session/new passed two registries that hold a server each
C14_Witness ==
    /\ Dispatched
    /\ InnerMethod(mcp_last.message) = "session/new"
    /\ IsWrapped(mcp_last.message)
    /\ \A r \in Registries : ServersOf(registry[r]) # {}
    /\ Len(SessionServers(mcp_last.out)) = 3

\* the frame as the typed request parsed from it is written: a successor envelope
\* whose meta is null is parsed as one without meta
AsParsed(m) ==
    IF IsWrapped(m)
    THEN McpMessage(m.kind, m.id, m.method,
                    with_meta(flatten(Untyped(Inner(m))), meta_of(m.params)))
    ELSE m
ConnectUrl(m) == Inner(m).params.acp_url
IsConnect(m) == m.kind = "request" /\ InnerMethod(m) = METHOD_MCP_CONNECT_REQUEST
Knows(r, m) == get_registered_server_by_url(mcp_last.before.registry[r], ConnectUrl(m))

BareRun == RunRegistries(1, mcp_last.before.registry, Inner(mcp_last.message),
                         mcp_last.envs, <<>>)
Rewrapped(m, inner) ==
    McpMessage(m.kind, m.id, m.method, with_meta(flatten(Untyped(inner)), meta_of(m.params)))

McpMessages(id) ==
    {m \in PeerMessages(id) : ~IsWrapped(m) /\ m.method # "session/new"}

DispatchTunnel ==
    /\ nframes < MaxMcpFrames
    /\ \E m \in McpMessages(nframes + 1) : \E spawns \in SpawnsFor(m) : Dispatch(m, spawns)

\* the servers are added to the first registry of the chain
NextMcp ==
    \/ \E name \in ServerNames : AddCheck(1, 1, name)
    \/ AddInsert(1)
    \/ DispatchTunnel
    \/ \E c \in DOMAIN forwarder : Forward(c)
    \/ \E c \in DOMAIN component : ComponentReply(c)

InitMcp == Fresh(<<>>)

SpecMcp == InitMcp /\ [][NextMcp]_vars

ConnectionIds == {ConnectionId(n) : n \in 1..MaxMcpFrames}

\* a spawned task is scheduled until it returns
FairSpecMcp == SpecMcp /\ \A c \in ConnectionIds : WF_vars(c \in DOMAIN forwarder /\ Forward(c))

\* connection c is open in a state: a registry holds its sender, its forwarding task
\* runs and its server component serves
Open(c, regs, st) ==
    /\ \E r \in Registries : get_connection(regs[r], c)
    /\ c \in DOMAIN st.forwarder
    /\ st.forwarder[c] = "running"
    /\ st.component[c].serving
OpenNow(c) == Open(c, registry, McpState)
Tunnelled(m, methods) ==
    /\ m.method \in methods
    /\ "connectionId" \in DOMAIN m.params
Embedded(m) ==
    [kind |-> m.kind, id |-> m.id,
     message |-> UntypedMessage(m.params.method, m.params.params)]

\* the frame dispatched by this step is a tunnelled message, under one of `methods`,
\* for an open connection
DispatchesOpen(m, methods) ==
    /\ nframes' = nframes + 1
    /\ mcp_last'.message = m
    /\ Tunnelled(m, methods)
    /\ OpenNow(m.params.connectionId)

ClaimedAndQueued(m) ==
    LET c == m.params.connectionId
    IN /\ mcp_last'.handled = "Yes"
       /\ mcp_server_rx' = [mcp_server_rx EXCEPT ![c] = Append(@, Embedded(m))]
       /\ component' = component
       /\ mcp_out' = mcp_out

\* a component receives only the head of its own connection's queue
DeliveredFromOwnQueue ==
    \A c \in DOMAIN component :
       component'[c] # component[c] =>
          /\ mcp_server_rx[c] # <<>>
          /\ component'[c].received = Append(component[c].received, Head(mcp_server_rx[c]))
          /\ mcp_server_rx' = [mcp_server_rx EXCEPT ![c] = Tail(@)]
          /\ \A d \in DOMAIN component \ {c} : component'[d] = component[d]

\* a response written by a component answers a request that component received, and
\* no request id is answered twice
RepliedOnce ==
    /\ \A id \in 1..MaxMcpFrames : Cardinality(ResponsesTo(id)) <= 1
    /\ \A k \in DOMAIN mcp_out :
          mcp_out[k].payload = "result" =>
             /\ mcp_out[k].connection_id \in DOMAIN component
             /\ \E j \in DOMAIN component[mcp_out[k].connection_id].received :
                   /\ component[mcp_out[k].connection_id].received[j].id = mcp_out[k].id
                   /\ component[mcp_out[k].connection_id].received[j].kind = "request"

\* something is queued for the component of a connection whose task runs; all of it
\* has reached the component
Queued(c) ==
    /\ c \in DOMAIN forwarder
    /\ forwarder[c] = "running"
    /\ component[c].serving
    /\ mcp_server_rx[c] # <<>>
Drained(c) == c \in DOMAIN mcp_server_rx /\ mcp_server_rx[c] = <<>>

IsDisconnect(m) == m.kind = "notification" /\ m.method = METHOD_MCP_DISCONNECT_NOTIFICATION
\* the last frame dispatched was an _mcp/disconnect for connection c, open at the time
Disconnected(c) ==
    /\ Dispatched
    /\ IsDisconnect(mcp_last.message)
    /\ mcp_last.message.params.connection_id = c
    /\ Open(c, mcp_last.before.registry, mcp_last.before.state)
Removed(c) == c \in DOMAIN forwarder /\ \A r \in Registries : ~get_connection(registry[r], c)

TaskEnded(c) == c \in DOMAIN forwarder /\ forwarder[c] = "ended"
StaysRemoved(c) == Removed(c) => (\A r \in Registries : ~get_connection(registry'[r], c))
\* nothing more is queued for a removed connection, its component receives only what
\* was queued, and a tunnelled frame naming it is not claimed
NothingForwarded(c) ==
    Removed(c) =>
       /\ Len(mcp_server_rx'[c]) <= Len(mcp_server_rx[c])
       /\ component'[c].received # component[c].received =>
             component'[c].received = Append(component[c].received, Head(mcp_server_rx[c]))
       /\ \A m \in McpMessages(nframes + 1) :
             /\ nframes' = nframes + 1
             /\ mcp_last'.message = m
             /\ Tunnelled(m, {METHOD_MCP_REQUEST, METHOD_MCP_NOTIFICATION, "_mcp/message"})
             /\ m.params.connectionId = c
             => /\ mcp_last'.handled # "Yes"
                /\ component' = component
EndsDrained(c) ==
    c \in DOMAIN forwarder /\ forwarder[c] = "running" /\ forwarder'[c] = "ended"
       => mcp_server_rx[c] = <<>> /\ Removed(c)

\* C18: once an _mcp/disconnect for an open connection has been handled the id is in
\* no connections map, and stays out; a later tunnelled frame with that id puts nothing
\* in the connection's queue and reaches no component; the forwarding task ends only
\* with its queue empty, everything queued having gone to the component; and it does end
C18_Disconnect ==
    /\ \A c \in ConnectionIds : [](Disconnected(c) => Removed(c))
    /\ [][\A c \in ConnectionIds : StaysRemoved(c)]_vars
    /\ [][\A c \in ConnectionIds : NothingForwarded(c)]_vars
    /\ [][\A c \in ConnectionIds : EndsDrained(c)]_vars
    /\ \A c \in ConnectionIds : [](Disconnected(c) => <>TaskEnded(c))

\* a connection was disconnected with a message in its queue, the message reached the
\* component afterwards and the forwarding task has ended
C18_Witness ==
    \E c \in DOMAIN forwarder :
       /\ Disconnected(c)
       /\ mcp_last.before.state.mcp_server_rx[c] # <<>>
       /\ component[c].received # <<>>
       /\ forwarder[c] = "ended"

(***************************************************************************)
(* Roles: what a role puts on its connection when it sends to a remote     *)
(* role                                                                    *)
(***************************************************************************)
\* the pairs <<local, remote>> with an `impl SendsToRole<remote> for local`
SendsToRole ==
    {<<"AcpClient", "AcpAgent">>, <<"AcpAgent", "AcpClient">>,
     <<"AcpProxy", "AcpClient">>, <<"AcpProxy", "AcpAgent">>,
     <<"AcpConductor", "AcpProxy">>, <<"AcpConductor", "AcpAgent">>,
     <<"AcpProxy", "AcpConductor">>}

\* `impl Counterpart<remote> for local`: the role at the other end of the connection
Counterpart ==
    {<<"AcpClient", "AcpAgent">>, <<"AcpAgent", "AcpClient">>,
     <<"AcpConductor", "AcpProxy">>, <<"AcpConductor", "AcpAgent">>,
     <<"AcpProxy", "AcpConductor">>}

transform_request_Bare(local, remote, message) == message

\* SendsToRole::transform_request of `local` for the target `remote`
transform_request(local, remote, message) ==
    IF local = "AcpProxy" /\ remote = "AcpAgent"
    THEN to_untyped_message(Generic("SuccessorRequest", U),
                            [request |-> message, meta |-> NoMeta])
    ELSE message

\* SendsToRole::transform_notification of `local` for the target `remote`
transform_notification(local, remote, message) ==
    IF local = "AcpProxy" /\ remote = "AcpAgent"
    THEN to_untyped_message(Generic("SuccessorNotification", U),
                            [notification |-> message, meta |-> NoMeta])
    ELSE message

\* the connection a role writes on: to its counterpart; a proxy's only connection is
\* the one to the conductor
WrittenTo(local, remote) ==
    IF <<local, remote>> \in Counterpart THEN remote ELSE "AcpConductor"

\* messages a role may send, among them one that is itself a successor envelope
RoleMessages ==
    {UntypedMessage("initialize", [cursor |-> 0]),
     UntypedMessage("session/new", [cursor |-> 1]),
     UntypedMessage(SUCCESSOR_REQUEST_METHOD,
                    flatten(UntypedMessage("initialize", [cursor |-> 0]))),
     UntypedMessage(SUCCESSOR_NOTIFICATION_METHOD,
                    flatten(UntypedMessage("session/update", [cursor |-> 0])))}

\* a role sends a request or a notification to a remote role: the transformed message
\* is the one frame written on its connection
SendTo(local, remote, kind, message) ==
    /\ Len(sends) < MaxSends
    /\ sends' = Append(sends,
                       [local |-> local, remote |-> remote, kind |-> kind,
                        message |-> message, on |-> WrittenTo(local, remote),
                        frame |-> IF kind = "request"
                                  THEN transform_request(local, remote, message)
                                  ELSE transform_notification(local, remote, message)])
    /\ UNCHANGED <<corevars, tablevars, wire, mcpvars, proxy, served>>

NextRoles ==
    \E link \in SendsToRole, kind \in {"request", "notification"}, message \in RoleMessages :
       SendTo(link[1], link[2], kind, message)

InitRoles == Fresh(<<>>)

SpecRoles == InitRoles /\ [][NextRoles]_vars

Enveloped(e) ==
    LET ty == IF e.kind = "request" THEN Generic("SuccessorRequest", U)
              ELSE Generic("SuccessorNotification", U)
        parsed == parse_typed(ty, e.kind, e.frame.method, e.frame.params)
    IN /\ e.frame.method = IF e.kind = "request" THEN SUCCESSOR_REQUEST_METHOD
                           ELSE SUCCESSOR_NOTIFICATION_METHOD
       /\ e.frame.params.method = e.message.method
       /\ e.frame.params.params = e.message.params
       /\ DOMAIN e.frame.params = {"method", "params"}
       /\ parsed.tag = "Ok"
       /\ parsed.value.meta = NoMeta
       /\ (IF e.kind = "request" THEN parsed.value.request
           ELSE parsed.value.notification) = e.message

\* C21: what a role writes for a message sent to a remote role is the message itself on
\* every link but proxy to agent, where it is one successor envelope (request or
\* notification) whose embedded method and params are the message's; each send writes
\* one frame, a proxy's on its connection to the conductor
C21_StyleMatrix ==
    \A k \in DOMAIN sends :
       LET e == sends[k]
       IN /\ IF e.local = "AcpProxy" /\ e.remote = "AcpAgent"
             THEN Enveloped(e)
             ELSE e.frame = e.message
          /\ e.local = "AcpProxy" => e.on = "AcpConductor"
          /\ e.local # "AcpProxy" => e.on = e.remote

\* a proxy has sent a request to the agent and a successor envelope to the client
C21_Witness ==
    /\ \E k \in DOMAIN sends :
          /\ sends[k].local = "AcpProxy" /\ sends[k].remote = "AcpAgent"
          /\ sends[k].kind = "request"
          /\ sends[k].message.method = "initialize"
          /\ sends[k].frame.method = SUCCESSOR_REQUEST_METHOD
    /\ \E k \in DOMAIN sends :
          /\ sends[k].local = "AcpProxy" /\ sends[k].remote = "AcpClient"
          /\ sends[k].frame.method = SUCCESSOR_REQUEST_METHOD

(***************************************************************************)
(* The default proxy handler (proxy.rs).  `proxy` holds what a proxy whose  *)
(* only handler is ProxyHandler has received (log), the requests and        *)
(* notifications it has sent on its connection (out) and the responses it   *)
(* has written to the requests it received (responses).                     *)
(***************************************************************************)
ProxyNoAnswer == [tag |-> "None"]
AnswerOk(v) == [tag |-> "Ok", value |-> v]
AnswerErr(code) == [tag |-> "Err", error |-> code]

\* InitializeRequest::parse_request: the method is `initialize`, the params must hold
\* the protocol version
parse_initialize(kind, method, params) ==
    IF kind # "request" \/ method # "initialize" THEN ParseNone
    ELSE IF "protocolVersion" \in DOMAIN params THEN ParseOk(params) ELSE ParseErr

has_meta_capability(v) == "proxy" \in DOMAIN v /\ v.proxy
remove_meta_capability(v) == [f \in DOMAIN v \ {"proxy"} |-> v[f]]
add_meta_capability(v) == [proxy |-> TRUE] @@ remove_meta_capability(v)

send_request_to_successor_Bare(request) == request

\* JrCxExt::send_request_to_successor: the request goes out inside a SuccessorRequest
\* with no meta
send_request_to_successor(request) ==
    to_untyped_message(Generic("SuccessorRequest", U), [request |-> request, meta |-> NoMeta])

send_notification_to_successor(notification) ==
    to_untyped_message(Generic("SuccessorNotification", U),
                       [notification |-> notification, meta |-> NoMeta])

ProxySendRequest(frame, id, map) ==
    [op |-> "send_request", frame |-> frame, id |-> id, map |-> map, code |-> "none"]
ProxySendNotification(frame) ==
    [op |-> "send_notification", frame |-> frame, id |-> 0, map |-> "none", code |-> "none"]
ProxyRespondWithError(id, code) ==
    [op |-> "respond_with_error", frame |-> UntypedMessage("none", <<>>), id |-> id,
     map |-> "none", code |-> code]

ProxyYes(fx) == [handled |-> "Yes", err |-> "none", fx |-> fx]
ProxyErr(code) == [handled |-> "Err", err |-> code, fx |-> <<>>]

\* as forward_initialize, but the request is sent on as it came, capability or not
forward_initialize_Unchecked(request, id) ==
    ProxyYes(<<ProxySendRequest(send_request_to_successor(UntypedMessage("initialize", request)),
                                id, "add_meta_capability")>>)

\* ProxyHandler::forward_initialize: without the proxy capability the request is
\* answered with InvalidParams; with it the capability is taken off, the request sent to
\* the successor, and the capability put back on the result
forward_initialize(request, id) ==
    IF ~has_meta_capability(request)
    THEN ProxyYes(<<ProxyRespondWithError(id, "InvalidParams")>>)
    ELSE ProxyYes(<<ProxySendRequest(
                      send_request_to_successor(
                          UntypedMessage("initialize", remove_meta_capability(request))),
                      id, "add_meta_capability")>>)

\* ProxyHandler::handle_message
ProxyHandler_handle_message(m) ==
    IF m.kind = "request"
    THEN LET s == parse_typed(Generic("SuccessorRequest", U), "request", m.method, m.params)
             i == parse_initialize("request", m.method, m.params)
         IN CASE s.tag = "Ok" -> ProxyYes(<<ProxySendRequest(s.value.request, m.id, "none")>>)
              [] s.tag = "Err" -> ProxyErr(s.error)
              [] i.tag = "Ok" -> forward_initialize(i.value, m.id)
              [] i.tag = "Err" -> ProxyErr(i.error)
              [] OTHER -> ProxyYes(<<ProxySendRequest(send_request_to_successor(Untyped(m)),
                                                 m.id, "none")>>)
    ELSE LET s == parse_typed(Generic("SuccessorNotification", U), "notification",
                              m.method, m.params)
         IN CASE s.tag = "Ok" -> ProxyYes(<<ProxySendNotification(s.value.notification)>>)
              [] s.tag = "Err" -> ProxyErr(s.error)
              [] OTHER -> ProxyYes(<<ProxySendNotification(
                                        send_notification_to_successor(Untyped(m)))>>)

ProxyMessages(id) ==
    {McpMessage("request", id, u.method, u.params) :
        u \in {UntypedMessage("session/new", [cursor |-> 0]),
               UntypedMessage("initialize", [protocolVersion |-> 1, proxy |-> TRUE]),
               UntypedMessage("initialize", [protocolVersion |-> 1, proxy |-> FALSE]),
               UntypedMessage("initialize", [protocolVersion |-> 1]),
               UntypedMessage("initialize", [cursor |-> 0]),
               UntypedMessage(SUCCESSOR_REQUEST_METHOD,
                              flatten(UntypedMessage("fs/read_text_file", [cursor |-> 0]))),
               UntypedMessage(SUCCESSOR_REQUEST_METHOD,
                              with_meta(flatten(UntypedMessage("initialize", [cursor |-> 0])),
                                        "{trace:1}")),
               UntypedMessage(SUCCESSOR_REQUEST_METHOD, [cursor |-> 0])}}
    \cup
    {McpMessage("notification", id, u.method, u.params) :
        u \in {UntypedMessage("session/cancel", [cursor |-> 0]),
               UntypedMessage(SUCCESSOR_NOTIFICATION_METHOD,
                              flatten(UntypedMessage("session/update", [cursor |-> 0]))),
               UntypedMessage(SUCCESSOR_NOTIFICATION_METHOD, [cursor |-> 0])}}

ProxyAnswers == {AnswerOk([protocolVersion |-> 1]), AnswerErr("InternalError")}

\* one effect of the handler on the proxy's connection
ProxyApply(st, e, n) ==
    CASE e.op = "send_request" ->
            [st EXCEPT !.out = Append(@, [kind |-> "request", frame |-> e.frame, for |-> n,
                                          to |-> e.id, map |-> e.map, answer |-> ProxyNoAnswer,
                                          delivered |-> FALSE])]
      [] e.op = "send_notification" ->
            [st EXCEPT !.out = Append(@, [kind |-> "notification", frame |-> e.frame,
                                          for |-> n, to |-> 0, map |-> "none",
                                          answer |-> ProxyNoAnswer, delivered |-> FALSE])]
      [] OTHER ->
            [st EXCEPT !.responses = Append(@, [id |-> e.id, payload |-> AnswerErr(e.code),
                                                by |-> "handler"])]

RECURSIVE ProxyApplyAll(_, _, _)
ProxyApplyAll(st, fx, n) ==
    IF fx = <<>> THEN st ELSE ProxyApplyAll(ProxyApply(st, Head(fx), n), Tail(fx), n)

\* the proxy's dispatch loop gives the next incoming message to ProxyHandler; an error
\* the handler returns for a request is sent back as the response to that request
ProxyHandle(m) ==
    /\ Len(proxy.log) < MaxForwards
    /\ m.id = Len(proxy.log) + 1
    /\ LET r == ProxyHandler_handle_message(m)
           st == ProxyApplyAll(proxy, r.fx, m.id)
           logged == [st EXCEPT !.log = Append(@, [message |-> m, handled |-> r.handled,
                                                   err |-> r.err])]
       IN proxy' = IF r.handled = "Err" /\ m.kind = "request"
                   THEN [logged EXCEPT !.responses =
                            Append(@, [id |-> m.id, payload |-> AnswerErr(r.err),
                                       by |-> "loop"])]
                   ELSE logged
    /\ UNCHANGED <<corevars, tablevars, wire, mcpvars, sends, served>>

\* the peer answers the k-th message the proxy sent, a request still unanswered
ProxyPeerAnswers(k, answer) ==
    /\ k \in DOMAIN proxy.out
    /\ proxy.out[k].kind = "request"
    /\ proxy.out[k].answer = ProxyNoAnswer
    /\ proxy' = [proxy EXCEPT !.out[k].answer = answer]
    /\ UNCHANGED <<corevars, tablevars, wire, mcpvars, sends, served>>

\* forward_to_request_cx / await_when_result_received: the result of the outgoing
\* request is given, once, to the request context it was bound to
ProxyForwardResponse(k) ==
    /\ k \in DOMAIN proxy.out
    /\ proxy.out[k].answer # ProxyNoAnswer
    /\ ~proxy.out[k].delivered
    /\ LET a == proxy.out[k].answer
           payload == IF proxy.out[k].map = "add_meta_capability" /\ a.tag = "Ok"
                      THEN AnswerOk(add_meta_capability(a.value))
                      ELSE a
       IN proxy' = [proxy EXCEPT !.out[k].delivered = TRUE,
                                 !.responses = Append(@, [id |-> proxy.out[k].to,
                                                          payload |-> payload,
                                                          by |-> "forward"])]
    /\ UNCHANGED <<corevars, tablevars, wire, mcpvars, sends, served>>

OutIndexes == 1..(MaxForwards + 1)

NextProxy ==
    \/ \E m \in ProxyMessages(Len(proxy.log) + 1) : ProxyHandle(m)
    \/ \E k \in OutIndexes, answer \in ProxyAnswers : ProxyPeerAnswers(k, answer)
    \/ \E k \in OutIndexes : ProxyForwardResponse(k)

InitProxy == Fresh(<<>>)

SpecProxy == InitProxy /\ [][NextProxy]_vars

\* the task that forwards a response is scheduled until it has run
FairSpecProxy == SpecProxy /\ \A k \in OutIndexes : WF_vars(ProxyForwardResponse(k))

ProxyOutsFor(n, kind) == {k \in DOMAIN proxy.out : proxy.out[k].for = n /\ proxy.out[k].kind = kind}
ProxyResponsesFor(n) == {k \in DOMAIN proxy.responses : proxy.responses[k].id = n}
LacksCapability(m) ==
    /\ m.kind = "request" /\ m.method = "initialize"
    /\ "protocolVersion" \in DOMAIN m.params
    /\ ~has_meta_capability(m.params)
ProxyMalformed(m) ==
    \/ IsWrapped(m) /\ ~is_message(m.params)
    \/ m.kind = "request" /\ m.method = "initialize" /\ "protocolVersion" \notin DOMAIN m.params

\* what the handler sends for the message m it forwards
ForwardedAs(m) ==
    CASE IsWrapped(m) -> UntypedMessage(m.params.method, m.params.params)
      [] m.method = "initialize" ->
            UntypedMessage(SUCCESSOR_REQUEST_METHOD,
                           flatten(UntypedMessage("initialize",
                                                  [protocolVersion |-> m.params.protocolVersion])))
      [] m.kind = "request" -> UntypedMessage(SUCCESSOR_REQUEST_METHOD, flatten(Untyped(m)))
      [] OTHER -> UntypedMessage(SUCCESSOR_NOTIFICATION_METHOD, flatten(Untyped(m)))

\* the response the original request gets for the answer a to the request sent for it
AnswerFor(m, a) ==
    IF ~IsWrapped(m) /\ m.method = "initialize" /\ a.tag = "Ok"
    THEN AnswerOk([proxy |-> TRUE] @@ a.value)
    ELSE a

ForwardedOnce(n) ==
    LET m == proxy.log[n].message
    IN /\ proxy.log[n].handled = "Yes"
       /\ Cardinality(ProxyOutsFor(n, m.kind)) = 1
       /\ Cardinality(ProxyOutsFor(n, "request") \cup ProxyOutsFor(n, "notification")) = 1
       /\ \A k \in ProxyOutsFor(n, m.kind) :
             /\ proxy.out[k].frame = ForwardedAs(m)
             /\ m.kind = "request" => proxy.out[k].to = m.id
       /\ Cardinality(ProxyResponsesFor(n)) <= 1
       /\ m.kind = "notification" => ProxyResponsesFor(n) = {}
       /\ \A j \in ProxyResponsesFor(n) :
             \E k \in ProxyOutsFor(n, "request") :
                /\ proxy.out[k].delivered
                /\ proxy.responses[j].payload = AnswerFor(m, proxy.out[k].answer)
       /\ \A k \in ProxyOutsFor(n, "request") : proxy.out[k].delivered => ProxyResponsesFor(n) # {}

RefusedOnce(n) ==
    /\ proxy.log[n].handled = "Yes"
    /\ ProxyOutsFor(n, "request") \cup ProxyOutsFor(n, "notification") = {}
    /\ \E j \in ProxyResponsesFor(n) :
          /\ ProxyResponsesFor(n) = {j}
          /\ proxy.responses[j].payload = AnswerErr("InvalidParams")

ProxyAnswered(k) == k \in DOMAIN proxy.out /\ proxy.out[k].answer # ProxyNoAnswer
ProxyDelivered(k) ==
    /\ k \in DOMAIN proxy.out
    /\ \E j \in DOMAIN proxy.responses :
          /\ proxy.responses[j].id = proxy.out[k].to
          /\ proxy.responses[j].by = "forward"

\* C22 as stated: every request the default proxy handler receives is claimed and has
\* exactly one outgoing request issued for it
C22_AsStated ==
    \A n \in DOMAIN proxy.log :
       proxy.log[n].message.kind = "request"
          => /\ proxy.log[n].handled = "Yes"
             /\ Cardinality(ProxyOutsFor(n, "request")) = 1

\* C22: every well-formed message the default proxy handler receives, other than an
\* initialize request without the proxy capability, is claimed and sent on exactly once:
\* a successor envelope as the bare inner message, a bare message inside a successor
\* envelope; the answer to the request sent on is delivered, once, as the response to
\* the request received.  An initialize request without the proxy capability is claimed,
\* answered with InvalidParams and not sent on.
C22_Forwarding ==
    /\ [](\A n \in DOMAIN proxy.log :
             LET m == proxy.log[n].message
             IN /\ (~ProxyMalformed(m) /\ ~LacksCapability(m)) => ForwardedOnce(n)
                /\ LacksCapability(m) => RefusedOnce(n))
    /\ \A k \in OutIndexes : ProxyAnswered(k) ~> ProxyDelivered(k)

\* a wrapped request and an initialize request with the capability have both been sent
\* on and the answers delivered to the requests received
C22_Witness ==
    /\ Len(proxy.log) = 2
    /\ IsWrapped(proxy.log[1].message) /\ proxy.log[1].message.kind = "request"
    /\ proxy.log[2].message.method = "initialize"
    /\ \A n \in {1, 2} :
          /\ proxy.log[n].handled = "Yes"
          /\ \E j \in ProxyResponsesFor(n) : /\ proxy.responses[j].by = "forward"
                                        /\ proxy.responses[j].payload.tag = "Ok"

\* an initialize request without the proxy capability has been answered by the handler
C22_Refused ==
    \E n \in DOMAIN proxy.log :
       /\ LacksCapability(proxy.log[n].message)
       /\ ProxyResponsesFor(n) # {}

(***************************************************************************)
(* Serving a connection.  `served` is one connection: the responders        *)
(* registered on it (tasks; the first is the builder's NullResponder, every *)
(* registration chains one more behind the ones before), the read loop, the *)
(* body given to with_client, and the result serve / with_client returned.  *)
(* A future is `ready` once what it waits for has happened; it completes    *)
(* when the connection's future is polled next.                             *)
(***************************************************************************)
Pending == [tag |-> "Pending"]
ReadyOk == [tag |-> "Ok"]
ReadyErr(code, data) == [tag |-> "Err", code |-> code, data |-> data]
NotReady == [tag |-> "None"]

ResponderKinds == {"Spawned", "ChildHolder", "Handler"}
Leaf(kind) == [kind |-> kind, st |-> "running", ready |-> NotReady, at |-> 0]

\* the error the task registered at position i returns
TaskError(i) == ReadyErr(i, [value |-> "task"])
MainError == ReadyErr(0, [value |-> "main"])

\* ChildHolder::poll: never ready
ChildHolder_poll == Pending

\* NullResponder::run
NullResponder_run == ReadyOk

SpawnedResponder_run_Swallows(location, r) == IF r.tag = "Err" THEN ReadyOk ELSE r

\* SpawnedResponder::run: the task's result; an error gets the place of the with_spawned
\* call and its former data as data
SpawnedResponder_run(location, r) ==
    IF r.tag = "Err"
    THEN ReadyErr(r.code, [spawned_at |-> location, data |-> r.data])
    ELSE r

HandlerResponder_run_Returns(closed) == ReadyOk

\* RequestHandlerResponder::run (NotificationHandlerResponder, MessageHandlerResponder):
\* the loop over call_rx ends when the channel is closed
HandlerResponder_run(closed) == IF closed THEN ReadyOk ELSE Pending

try_join_Second(a, b) ==
    CASE b.tag = "Err" -> b
      [] a.tag = "Err" -> a
      [] a.tag = "Ok" /\ b.tag = "Ok" -> ReadyOk
      [] OTHER -> Pending

\* futures::future::try_join(a_fut, b_fut): a is polled first and its error returned at
\* once, then b; Ok when both have completed
try_join(a, b) ==
    CASE a.tag = "Err" -> a
      [] b.tag = "Err" -> b
      [] a.tag = "Ok" /\ b.tag = "Ok" -> ReadyOk
      [] OTHER -> Pending

\* one poll of the responder at position i
PollLeaf(ts, i) ==
    LET t == ts[i]
        r == CASE t.st = "done" -> ReadyOk
               [] t.kind = "Null" -> NullResponder_run
               [] t.kind = "ChildHolder" -> SpawnedResponder_run(i, ChildHolder_poll)
               [] t.kind = "Spawned" ->
                     SpawnedResponder_run(i, IF t.ready = NotReady THEN Pending ELSE t.ready)
               [] OTHER -> HandlerResponder_run(FALSE)
    IN [res |-> r, ts |-> IF r.tag = "Ok" THEN [ts EXCEPT ![i].st = "done"] ELSE ts]

\* the poll of b after the poll a of the responders chained before it
then_b(a, n) ==
    LET b == PollLeaf(a.ts, n)
    IN [res |-> try_join(a.res, b.res), ts |-> IF a.res.tag = "Err" THEN a.ts ELSE b.ts]

RECURSIVE ChainResponder_run(_, _)
\* ChainResponder::run of the chain of the first n responders: a is the chain of the
\* responders registered before, b the n-th (a is taken from a one-element set so that
\* it is evaluated once)
ChainResponder_run(ts, n) ==
    IF n = 1 THEN PollLeaf(ts, 1)
    ELSE CHOOSE r \in {then_b(a, n) : a \in {ChainResponder_run(ts, n - 1)}} : TRUE

\* JrConnectionBuilder::with_spawned and the on_receive_* registrations: one more
\* responder chained behind the ones registered before
Register(kind) ==
    /\ served.st = "new"
    /\ Len(served.tasks) < MaxTasks + 1
    /\ served' = [served EXCEPT !.tasks = Append(@, Leaf(kind))]
    /\ UNCHANGED <<corevars, tablevars, wire, mcpvars, sends, proxy>>

\* serve() / with_client(main_fn)
Serve(mode) ==
    /\ served.st = "new"
    /\ served' = [served EXCEPT !.st = "serving", !.mode = mode]
    /\ UNCHANGED <<corevars, tablevars, wire, mcpvars, sends, proxy>>

\* the spawned task at position i comes to its result
TaskReady(i, r) ==
    /\ served.st = "serving"
    /\ i \in DOMAIN served.tasks
    /\ served.tasks[i].kind = "Spawned"
    /\ served.tasks[i].st = "running"
    /\ served.tasks[i].ready = NotReady
    /\ served' = [served EXCEPT !.tasks[i].ready = r, !.tasks[i].at = served.events + 1,
                                !.events = @ + 1]
    /\ UNCHANGED <<corevars, tablevars, wire, mcpvars, sends, proxy>>

\* the transport signals EOF
TransportEof ==
    /\ served.st = "serving"
    /\ served.loop = "reading"
    /\ served' = [served EXCEPT !.loop = "eof"]
    /\ UNCHANGED <<corevars, tablevars, wire, mcpvars, sends, proxy>>

\* the body given to with_client comes to its result
MainReady(r) ==
    /\ served.st = "serving"
    /\ served.mode = "with_client"
    /\ served.main = NotReady
    /\ served' = [served EXCEPT !.main = r]
    /\ UNCHANGED <<corevars, tablevars, wire, mcpvars, sends, proxy>>

\* the read loop has ended and let go of the handlers: their channels are closed and the
\* responders come to the end of their loops
Closed(ts) ==
    [i \in DOMAIN ts |->
        IF ts[i].kind = "Handler" /\ HandlerResponder_run(TRUE) = ReadyOk
        THEN [ts[i] EXCEPT !.st = "done"]
        ELSE ts[i]]

Woken ==
    \/ served.loop = "eof"
    \/ served.main # NotReady
    \/ \E i \in DOMAIN served.tasks :
          /\ served.tasks[i].st = "running"
          /\ \/ served.tasks[i].kind = "Null"
             \/ served.tasks[i].ready # NotReady

\* the future of serve / with_client is polled: the responders, chained, then the read
\* loop, then the body
PollServe ==
    /\ served.st = "serving"
    /\ Woken
    /\ LET c == ChainResponder_run(served.tasks, Len(served.tasks))
           polled == [served EXCEPT !.tasks = c.ts]
           End(cause, result) == [polled EXCEPT !.st = "ended", !.cause = cause,
                                                !.result = result]
       IN served' = CASE c.res.tag = "Err" -> End("task", c.res)
                      [] served.loop = "eof" ->
                            [End("eof", ReadyOk) EXCEPT !.loop = "done",
                                                        !.tasks = Closed(c.ts)]
                      [] served.main # NotReady -> End("main", served.main)
                      [] OTHER -> polled
    /\ UNCHANGED <<corevars, tablevars, wire, mcpvars, sends, proxy>>

NextServe ==
    \/ \E kind \in ResponderKinds : Register(kind)
    \/ \E mode \in {"serve", "with_client"} : Serve(mode)
    \/ \E i \in 2..(MaxTasks + 1) : \E r \in {ReadyOk, TaskError(i)} : TaskReady(i, r)
    \/ TransportEof
    \/ \E r \in {ReadyOk, MainError} : MainReady(r)
    \/ PollServe

InitServe == Fresh(<<>>)

SpecServe == InitServe /\ [][NextServe]_vars

\* a future that has been woken is polled
FairSpecServe == SpecServe /\ WF_vars(PollServe)

ServeEnded == served.st = "ended"
Failing == {i \in DOMAIN served.tasks : served.tasks[i].ready.tag = "Err"}
HoldsChild == \E i \in DOMAIN served.tasks : served.tasks[i].kind = "ChildHolder"

\* C23: serve ends once the transport has signalled EOF and with_client once the
\* transport has signalled EOF or the body has come to its result, whatever the spawned
\* tasks do; a ChildHolder never completes; serve and with_client end for no other
\* reason than EOF, the body's result or a task's error, and an error of a spawned task
\* is the result, with the place of its with_spawned call added
C23_Termination ==
    /\ [](/\ \A i \in DOMAIN served.tasks :
                served.tasks[i].kind = "ChildHolder" => served.tasks[i].st = "running"
          /\ ServeEnded =>
                /\ served.cause = "eof" => served.result = ReadyOk
                /\ served.cause = "main" =>
                      served.mode = "with_client" /\ served.result = served.main
                /\ served.cause = "task" =>
                      \E i \in Failing :
                         served.result =
                            ReadyErr(i, [spawned_at |-> i, data |-> [value |-> "task"]])
                /\ served.cause \in {"eof", "main", "task"})
    /\ (served.loop = "eof" \/ served.main # NotReady \/ Failing # {}) ~> ServeEnded

\* serve has ended at EOF on a connection whose ChildHolder is still pending
C23_Witness ==
    /\ ServeEnded /\ served.mode = "serve" /\ served.cause = "eof"
    /\ HoldsChild

\* with_client has ended with the error of a spawned task
C23_TaskError ==
    /\ ServeEnded /\ served.mode = "with_client" /\ served.cause = "task"

FirstFailing == CHOOSE i \in Failing : \A j \in Failing : i <= j

\* C25: when serve or with_client returns the error of a task, it is the error of the
\* task registered first among those that have failed, whichever failed first in time
C25_FirstRegistered ==
    (ServeEnded /\ served.cause = "task")
       => /\ Failing # {}
          /\ served.result.tag = "Err"
          /\ served.result.code = FirstFailing
          /\ served.result.data.spawned_at = FirstFailing

\* two tasks have failed, the one registered later first, and the error returned is the
\* one of the task registered first
C25_Witness ==
    /\ ServeEnded /\ served.cause = "task"
    /\ \E i, j \in Failing :
          /\ i < j
          /\ served.tasks[j].at < served.tasks[i].at
          /\ served.result.code = i

ChainDone(n) == \A i \in 1..n : served.tasks[i].st = "done"
Serving == served.st = "serving"

\* C26 as stated: no registered responder has finished while the connection is serving
C26_AsStated ==
    Serving => \A i \in DOMAIN served.tasks : served.tasks[i].st # "done"

\* C26: while the connection is serving no handler responder has finished, nor any
\* chain of responders that holds one or holds a task that never completes; the
\* NullResponder has finished once the connection has been polled, a spawned task's
\* responder once the task has returned Ok
C26_HandlerResponders ==
    /\ Serving =>
          \A i \in DOMAIN served.tasks :
             served.tasks[i].kind \in {"Handler", "ChildHolder"}
                => /\ served.tasks[i].st = "running"
                   /\ \A n \in i..Len(served.tasks) : ~ChainDone(n)
    /\ \A i \in DOMAIN served.tasks :
          served.tasks[i].st = "done"
             => \/ served.tasks[i].kind = "Null"
                \/ served.tasks[i].kind = "Spawned" /\ served.tasks[i].ready = ReadyOk
                \/ served.tasks[i].kind = "Handler" /\ served.loop = "done"
    /\ ServeEnded => served.tasks[1].st = "done"

\* a connection with a handler responder is serving: the NullResponder and a spawned
\* task have finished, the handler responder has not
C26_Witness ==
    /\ Serving
    /\ served.tasks[1].st = "done"
    /\ \E i, j \in DOMAIN served.tasks :
          /\ served.tasks[i].kind = "Handler" /\ served.tasks[i].st = "running"
          /\ served.tasks[j].kind = "Spawned" /\ served.tasks[j].st = "done"

\* the connection has ended at EOF and its handler responder has finished
C26_Drained ==
    /\ ServeEnded
    /\ \E i \in DOMAIN served.tasks :
          served.tasks[i].kind = "Handler" /\ served.tasks[i].st = "done"

(***************************************************************************)
(* Typed messages of the schema (schema/client_to_agent/requests.rs,       *)
(* notifications.rs, schema/agent_to_client/notifications.rs) and their    *)
(* round trip through UntypedMessage.  A typed value is its type and its   *)
(* data; serialized it is a JSON object of the shape of its struct.        *)
(***************************************************************************)
SchemaRequests == {"InitializeRequest", "AuthenticateRequest", "LoadSessionRequest",
                   "PromptRequest", "SetSessionModeRequest"}
SchemaNotifications == {"CancelNotification", "SessionNotification"}
SchemaNames == SchemaRequests \cup SchemaNotifications

\* JrMessage::method
method_of(name) ==
    CASE name = "InitializeRequest" -> "initialize"
      [] name = "AuthenticateRequest" -> "authenticate"
      [] name = "LoadSessionRequest" -> "session/load"
      [] name = "PromptRequest" -> "session/prompt"
      [] name = "SetSessionModeRequest" -> "session/set_mode"
      [] name = "CancelNotification" -> "session/cancel"
      [] name = "SessionNotification" -> "session/update"

parse_method_Initialize(name) == "initialize"

\* the method parse_request / parse_notification of the type compares with
parse_method(name) ==
    CASE name = "InitializeRequest" -> "initialize"
      [] name = "AuthenticateRequest" -> "authenticate"
      [] name = "LoadSessionRequest" -> "session/load"
      [] name = "PromptRequest" -> "session/prompt"
      [] name = "SetSessionModeRequest" -> "session/set_mode"
      [] name = "CancelNotification" -> "session/cancel"
      [] name = "SessionNotification" -> "session/update"

\* UntypedMessage::new(method, self): the params are the value serialized
to_value(v) == [shape |-> v.ty, data |-> v.data]

\* json_cast(params) into the struct `name`
json_cast_to(name, params) ==
    IF "shape" \in DOMAIN params /\ params.shape = name
    THEN ParseOk([ty |-> name, data |-> params.data])
    ELSE ParseErr

schema_to_untyped_message(v) == UntypedMessage(method_of(v.ty), to_value(v))

schema_parse(name, method, params) ==
    IF method # parse_method(name) THEN ParseNone ELSE json_cast_to(name, params)

TypedTypes ==
    {Ty(name) : name \in SchemaNames}
       \cup {Ty("NewSessionRequest")}
       \cup {Generic("SuccessorRequest", U), Generic("SuccessorNotification", U),
             Generic("McpOverAcpRequest", U), Generic("McpOverAcpNotification", U)}

TypedValues(ty) ==
    CASE ty.name \in SchemaNames -> {[ty |-> ty.name, data |-> d] : d \in {0, 1}}
      [] ty.name = "NewSessionRequest" -> {[mcp_servers |-> <<>>], [mcp_servers |-> <<1>>]}
      [] OTHER -> ValuesOf(ty)

\* the method of the type
MethodOf(ty) ==
    CASE ty.name \in SchemaNames -> method_of(ty.name)
      [] ty.name = "NewSessionRequest" -> "session/new"
      [] ty.name = "SuccessorRequest" -> SUCCESSOR_REQUEST_METHOD
      [] ty.name = "SuccessorNotification" -> SUCCESSOR_NOTIFICATION_METHOD
      [] ty.name = "McpOverAcpRequest" -> METHOD_MCP_REQUEST
      [] ty.name = "McpOverAcpNotification" -> METHOD_MCP_NOTIFICATION

typed_to_untyped_message(ty, v) ==
    IF ty.name \in SchemaNames THEN schema_to_untyped_message(v) ELSE to_untyped_message(ty, v)

\* parse_request / parse_notification of the type ty
typed_parse(ty, method, params) ==
    IF ty.name \in SchemaNames THEN schema_parse(ty.name, method, params)
    ELSE parse_typed(ty, KindOf(ty), method, params)

SerializeTyped ==
    /\ wire.stage = "idle"
    /\ \E ty \in TypedTypes :
          \E v \in TypedValues(ty) :
             wire' = [stage |-> "serialized", ty |-> ty, sent |-> v,
                      frame |-> typed_to_untyped_message(ty, v)]
    /\ UNCHANGED <<latevars, corevars, tablevars, mcpvars>>

\* the frame is parsed as a typed message, of the type it was made from or of another
ParseAs(ty) ==
    /\ wire.stage = "serialized"
    /\ wire' = [stage |-> "parsed", ty |-> wire.ty, sent |-> wire.sent, frame |-> wire.frame,
                as |-> ty, parsed |-> typed_parse(ty, wire.frame.method, wire.frame.params)]
    /\ UNCHANGED <<latevars, corevars, tablevars, mcpvars>>

NextTyped ==
    \/ SerializeTyped
    \/ \E ty \in TypedTypes : ParseAs(ty)

InitTyped == Fresh(<<>>)

SpecTyped == InitTyped /\ [][NextTyped]_vars

\* the value with a meta that is Some(null) replaced by None
AsDeserialized(ty, v) ==
    IF ty.name \in SchemaNames \cup {"NewSessionRequest"} THEN v ELSE null_meta_as_none(ty, v)

\* C24 as stated: a typed message serialized and parsed as its own type gives Ok of the
\* message, and parsed as a type of another method gives None
C24_AsStated ==
    wire.stage = "parsed" =>
        /\ wire.as = wire.ty => wire.parsed = ParseOk(wire.sent)
        /\ MethodOf(wire.as) # MethodOf(wire.ty) => wire.parsed = ParseNone

\* C24: a typed message serialized and parsed as its own type gives Ok of the message,
\* but for an envelope's meta of JSON null, which comes back as no meta; parsed as a type
\* of another method it gives None
C24_RoundTrip ==
    wire.stage = "parsed" =>
        /\ wire.as = wire.ty => wire.parsed = ParseOk(AsDeserialized(wire.ty, wire.sent))
        /\ (wire.as = wire.ty /\ AsDeserialized(wire.ty, wire.sent) = wire.sent)
              => wire.parsed = ParseOk(wire.sent)
        /\ MethodOf(wire.as) # MethodOf(wire.ty) => wire.parsed = ParseNone

\* a session/set_mode request came back whole
C24_Witness ==
    /\ wire.stage = "parsed"
    /\ wire.ty = Ty("SetSessionModeRequest") /\ wire.as = wire.ty
    /\ wire.frame.method = "session/set_mode"
    /\ wire.parsed = ParseOk(wire.sent)

\* a session/cancel notification was not taken for a session/update notification
C24_NotMine ==
    /\ wire.stage = "parsed"
    /\ wire.ty = Ty("CancelNotification") /\ wire.as = Ty("SessionNotification")
    /\ wire.parsed = ParseNone

(***************************************************************************)
(* Specification of a connection served by two responder handlers, one for *)
(* each request method.                                                    *)
(***************************************************************************)
InitResponders ==
    Fresh(<<Handler("RequestHandlerAsync", "initialize"),
            Handler("RequestHandlerAsync", "authenticate")>>)

SpecResponders == InitResponders /\ [][Next]_vars

\* the calls whose callback, run by the responder at idx, returned Err
FailedCalls(idx) ==
    {e.id : e \in {x \in cblog : /\ x.ev = "cb_end" /\ x.by = "responder" /\ x.idx = idx
                                 /\ RequestCallbackFails(x.beh)}}
\* the calls whose callback the responder at idx has started and not ended
OpenCalls(idx) ==
    {id \in Ids : /\ <<id, idx>> \in Started("responder")
                  /\ <<id, idx>> \notin Ended("responder")}

FailsAt(idx) == FailedCalls(idx)' # FailedCalls(idx)

\* C27: a responder whose callback returned Err has not terminated: it is idle or
\* running a later callback, and takes the next call whenever one is queued; the step in
\* which the callback fails takes that call off the queue, leaves the responder idle,
\* and changes neither the read loop nor the other responders and their queues
C27_SurvivesErrors ==
    /\ [](\A idx \in DOMAIN chain :
             /\ responder[idx].state \in {"idle", "awaiting"}
             /\ (FailedCalls(idx) # {} /\ responder[idx] = Idle /\ call_q[idx] # <<>>)
                   => ENABLED ResponderTake(idx))
    /\ [][\A idx \in DOMAIN chain :
             FailsAt(idx) =>
                /\ responder'[idx] = Idle
                /\ call_q[idx] # <<>> /\ call_q'[idx] = Tail(call_q[idx])
                /\ loop' = loop /\ nread' = nread /\ incoming' = incoming
                /\ \A j \in DOMAIN chain \ {idx} :
                      call_q'[j] = call_q[j] /\ responder'[j] = responder[j]]_vars

\* the callback of a responder returned Err for one call and was started for a later one
C27_Witness ==
    \E idx \in DOMAIN chain :
       \E id1 \in FailedCalls(idx), id2 \in Ids :
          /\ id1 < id2
          /\ <<id2, idx>> \in Started("responder")
          /\ loop # "closed"

\* C28: a responder has at most one callback running; the calls wait in its queue in
\* the order the dispatch loop read them, behind every call already taken; the callback
\* of a call has started only when the callbacks of all earlier calls of the same
\* responder have ended
C28_Ordering ==
    \A idx \in DOMAIN chain :
       /\ Cardinality(OpenCalls(idx)) <= 1
       /\ OpenCalls(idx) # {} <=> responder[idx].state = "awaiting"
       /\ \A i, j \in DOMAIN call_q[idx] : i < j => call_q[idx][i] < call_q[idx][j]
       /\ \A id \in Ids :
             <<id, idx>> \in Started("responder")
                => /\ \A q \in InQueue(idx) : id < q
                   /\ \A id1 \in ClaimedAsync(idx) :
                         id1 < id => <<id1, idx>> \in Ended("responder")

\* while the callback of one responder waits for a response the read loop has read the
\* next frame and the other responder has run its callback on it
C28_Witness ==
    \E idx1, idx2 \in DOMAIN chain :
       \E e1, e2 \in cblog :
          /\ idx1 # idx2
          /\ e1.ev = "cb_start" /\ e1.idx = idx1 /\ e1.id \in OpenCalls(idx1)
          /\ e2.ev = "cb_end" /\ e2.idx = idx2 /\ e2.by = "responder"
          /\ e1.at < e2.id

\* two calls of one responder have had their callbacks run one after the other
C28_InOrder ==
    \E idx \in DOMAIN chain :
       \E id1, id2 \in Ids :
          /\ id1 < id2
          /\ <<id1, idx>> \in Ended("responder")
          /\ <<id2, idx>> \in Started("responder")

(***************************************************************************)
(* Specification of concurrent adds: every task holding a handle of a      *)
(* registry calls add_mcp_server; a call holds the lock for the name check *)
(* and again for the insert, and other calls may run in between.           *)
(***************************************************************************)
NextAdds ==
    \/ \E t \in Callers, r \in Registries, name \in ServerNames : AddCheck(t, r, name)
    \/ \E t \in Callers : AddInsert(t)

InitAdds == Fresh(<<>>)

SpecAdds == InitAdds /\ [][NextAdds]_vars

ByName(data) == {data.registered_by_name[n] : n \in DOMAIN data.registered_by_name}
ByUrl(data) == {data.registered_by_url[u] : u \in DOMAIN data.registered_by_url}

\* C29 as stated: in every registry the by-name map and the by-url map hold the same
\* server records, each under its own name and its own url, one url for every name and
\* one name for every url
C29_AsStated ==
    \A r \in Registries :
       /\ ByName(registry[r]) = ByUrl(registry[r])
       /\ \A n \in DOMAIN registry[r].registered_by_name :
             registry[r].registered_by_name[n].name = n
       /\ \A u \in DOMAIN registry[r].registered_by_url :
             registry[r].registered_by_url[u].url = u
       /\ \A a, b \in ByUrl(registry[r]) : a.name = b.name => a.url = b.url

\* C30 as stated: a call returns Ok only for a name no other call has registered
C30_AsStated ==
    last_add.result = "Ok"
       => ~get_registered_server_by_name(last_add.before[last_add.r], last_add.name)

(***************************************************************************)
(* A connect whose spawns fail                                             *)
(***************************************************************************)
\* the last frame was an _mcp/connect that registry r claimed and one of whose two
\* spawns failed
SpawnFailed(r) ==
    /\ Reached(r)
    /\ IsConnect(mcp_last.message)
    /\ Knows(r, mcp_last.message)
    /\ mcp_last.spawns # "ok"

\* C31: when handling _mcp/connect fails to spawn either side of the connection the
\* requester receives an error response and the connections map is as it was before
\* the request, with no entry for the connection id allocated in the failed attempt
C31_AsStated ==
    \A r \in Registries :
       SpawnFailed(r) =>
          /\ \A k \in ResponsesTo(mcp_last.n) :
                mcp_out[k].payload = "error"
          /\ ResponsesTo(mcp_last.n) # {}
          /\ ~get_connection(registry[r], ConnectionId(mcp_last.n))
          /\ registry[r].connections = mcp_last.before.registry[r].connections

(***************************************************************************)
(* A callback that returns Ok(()) with the request context unused          *)
(***************************************************************************)
\* the in-line callback of a RequestHandler ran on request id and returned Ok(())
\* without responding, forwarding or handing off the request context
ReturnedOkUnused(id) ==
    \E e \in cblog : e.ev = "cb_end" /\ e.id = id /\ e.beh = "drop" /\ e.by = "loop"
                     /\ chain[e.idx].kind = "RequestHandler"

ReceivesFromRole ==
    {<<"AcpClient", "AcpAgent">>, <<"AcpAgent", "AcpClient">>,
     <<"AcpProxy", "AcpClient">>, <<"AcpProxy", "AcpAgent">>,
     <<"AcpConductor", "AcpProxy">>, <<"AcpConductor", "AcpAgent">>,
     <<"AcpProxy", "AcpConductor">>}

\* the inner handler: claims the message, declines it as given, declines it rewritten,
\* or fails
InnerBeh == {"yes", "no", "rewrite", "err"}
Rewritten(m) == [m EXCEPT !.params = [cursor |-> 7]]
Received(outcome, message, given) ==
    [handled |-> outcome, message |-> message, given |-> given]

\* handler.handle_message(message) of the handler receive_message is given
inner_handle_message(beh, m) ==
    CASE beh = "yes" -> Received("Yes", m, <<m>>)
      [] beh = "no" -> Received("No", m, <<m>>)
      [] beh = "rewrite" -> Received("No", Rewritten(m), <<m>>)
      [] OTHER -> Received("Err", m, <<m>>)

\* one arm of the MatchMessage in receive_message: if_request (name =
\* "SuccessorRequest") or if_notification (name = "SuccessorNotification")
if_successor(name, m, beh) ==
    LET ty == Generic(name, U)
        p == parse_typed(ty, m.kind, m.method, m.params)
    IN CASE p.tag = "None" -> Received("No", m, <<>>)
         [] p.tag = "Err" -> Received("Err", m, <<>>)
         [] OTHER ->
              LET body == IF name = "SuccessorRequest" THEN p.value.request
                          ELSE p.value.notification
                  r == inner_handle_message(beh, McpMessage(m.kind, m.id, body.method,
                                                            body.params))
                  envelope == IF name = "SuccessorRequest"
                              THEN [request |-> Untyped(r.message), meta |-> p.value.meta]
                              ELSE [notification |-> Untyped(r.message),
                                    meta |-> p.value.meta]
              IN IF r.handled = "No"
                 THEN Received("No", Retyped(r.message, to_untyped_message(ty, envelope)),
                               r.given)
                 ELSE Received(r.handled, m, r.given)

receive_message_Passthrough(local, sender, m, beh) == inner_handle_message(beh, m)

\* ReceivesFromRole::receive_message of `local` for the sender role `sender`
receive_message(local, sender, m, beh) ==
    IF local = "AcpProxy" /\ sender = "AcpAgent"
    THEN LET a == if_successor("SuccessorRequest", m, beh)
         IN IF a.handled = "No"
            THEN LET b == if_successor("SuccessorNotification", a.message, beh)
                 IN Received(b.handled, b.message, a.given \o b.given)
            ELSE a
    ELSE inner_handle_message(beh, m)

\* what the peer writes: bare messages, successor envelopes of either kind with and
\* without meta, and envelopes whose body is not a message
ReceivedMessages ==
    LET bodies == {with_meta(flatten(inner), meta) : inner \in InnerMessages, meta \in Metas}
                  \cup {[cursor |-> 0]}
    IN {McpMessage(kind, 1, method, [cursor |-> 0]) :
           kind \in {"request", "notification"}, method \in {"initialize", "session/update"}}
       \cup {McpMessage(kind, 1, method, body) :
               kind \in {"request", "notification"},
               method \in {SUCCESSOR_REQUEST_METHOD, SUCCESSOR_NOTIFICATION_METHOD},
               body \in bodies}

Receive(local, sender, m, beh) ==
    /\ wire.stage = "idle"
    /\ wire' = [stage |-> "received", local |-> local, sender |-> sender, message |-> m,
                beh |-> beh, result |-> receive_message(local, sender, m, beh)]
    /\ UNCHANGED <<latevars, corevars, tablevars, mcpvars>>

NextReceive ==
    \E link \in ReceivesFromRole, m \in ReceivedMessages, beh \in InnerBeh :
       Receive(link[1], link[2], m, beh)

InitReceive == Fresh(<<>>)

SpecReceive == InitReceive /\ [][NextReceive]_vars

\* a proxy received the message from its logical remote, the agent
FromAgent == wire.stage = "received" /\ wire.local = "AcpProxy" /\ wire.sender = "AcpAgent"
\* the message is a successor envelope of its own kind around a message
IsSuccessorEnvelope(m) ==
    /\ m.method = IF m.kind = "request" THEN SUCCESSOR_REQUEST_METHOD
                  ELSE SUCCESSOR_NOTIFICATION_METHOD
    /\ is_message(m.params)
EmbeddedIn(m) == McpMessage(m.kind, m.id, m.params.method, m.params.params)
\* the message the inner handler hands back when it declines
ReturnedBy(beh, m) == IF beh = "rewrite" THEN Rewritten(m) ELSE m
\* the handler never sees anything but the embedded message of an envelope, and a
\* message that is no envelope comes back as it was
OnlyEmbedded ==
    LET m == wire.message
        res == wire.result
    IN /\ res.given # <<>> => IsSuccessorEnvelope(m) /\ res.given = <<EmbeddedIn(m)>>
       /\ m.method \notin {SUCCESSOR_REQUEST_METHOD, SUCCESSOR_NOTIFICATION_METHOD} =>
             res = Received("No", m, <<>>)
       /\ IsSuccessorEnvelope(m) => res.given = <<EmbeddedIn(m)>>
\* the inner handler declined the embedded message of an envelope
Declined ==
    /\ FromAgent
    /\ IsSuccessorEnvelope(wire.message)
    /\ wire.beh \in {"no", "rewrite"}

\* C33 as stated: a handler on a proxy configured for the remote agent is given only
\* the embedded message of successor envelopes, a bare message coming back as
\* Handled::No unchanged; when the handler declines, the message handed on is the
\* envelope as it came, original meta included, around the handler's returned message,
\* with the same request context
C33_AsStated ==
    /\ FromAgent => OnlyEmbedded
    /\ Declined =>
          LET m == wire.message
              back == ReturnedBy(wire.beh, EmbeddedIn(m))
          IN wire.result.message =
                [m EXCEPT !.params = [@ EXCEPT !.method = back.method,
                                               !.params = back.params]]

\* C33: as stated, except that an envelope whose meta is JSON null is handed on
\* without a meta
C33_UnwrapRewrap ==
    /\ FromAgent => OnlyEmbedded
    /\ Declined =>
          LET m == wire.message
              back == ReturnedBy(wire.beh, EmbeddedIn(m))
              out == wire.result.message
              kept == DOMAIN m.params \ (IF "meta" \in DOMAIN m.params
                                            /\ m.params.meta = JsonNull
                                         THEN {"meta"} ELSE {})
          IN /\ wire.result.handled = "No"
             /\ out.kind = m.kind /\ out.id = m.id /\ out.method = m.method
             /\ DOMAIN out.params = kept
             /\ out.params.method = back.method
             /\ out.params.params = back.params
             /\ "meta" \in kept => out.params.meta = m.params.meta

\* a request envelope with a meta was unwrapped, its request rewritten by the
\* declining handler, and handed on in an envelope with that meta
C33_Witness ==
    /\ Declined
    /\ wire.message.kind = "request"
    /\ wire.beh = "rewrite"
    /\ "meta" \in DOMAIN wire.message.params
    /\ wire.message.params.meta = "{trace:1}"
    /\ wire.result.message.params.meta = "{trace:1}"
    /\ wire.result.message.params.params = [cursor |-> 7]
    /\ wire.result.given = <<EmbeddedIn(wire.message)>>

(***************************************************************************)
(* Parsing any frame as a successor envelope of a type T                   *)
(***************************************************************************)
SuccessorTypes ==
    {Generic("SuccessorRequest", T) :
        T \in {U, Ty("McpConnectRequest"), Ty("NewSessionRequest"),
               Generic("McpOverAcpRequest", U)}}
    \cup {Generic("SuccessorNotification", T) :
            T \in {U, Ty("McpDisconnectNotification"), Generic("McpOverAcpNotification", U)}}

\* params of frames: bodies of each message type, an envelope body around each of
\* them under each method, with and without meta, and a body that is no message
FrameBodies ==
    LET c == ConnectionId(1)
        plain == {[acp_url |-> AcpUrl(<<1, "fs", 1>>)], [mcpServers |-> <<>>],
                  [connection_id |-> c], [cursor |-> 0],
                  [connectionId |-> c, method |-> "tools/list", params |-> [cursor |-> 0]]}
        methods == {METHOD_MCP_CONNECT_REQUEST, "session/new",
                    METHOD_MCP_DISCONNECT_NOTIFICATION, METHOD_MCP_REQUEST,
                    METHOD_MCP_NOTIFICATION, "initialize"}
    IN {[cursor |-> 0]}
       \cup {with_meta(flatten(UntypedMessage(em, ep)), meta) :
               em \in methods, ep \in plain, meta \in Metas}
FrameMethods ==
    {SUCCESSOR_REQUEST_METHOD, SUCCESSOR_NOTIFICATION_METHOD, "initialize",
     METHOD_MCP_CONNECT_REQUEST}

\* MatchMessage asks a type for parse_request of a request and parse_notification of a
\* notification
ParseFrame(ty, kind, method, params) ==
    /\ wire.stage = "idle"
    /\ wire' = [stage |-> "parsed_as", ty |-> ty, kind |-> kind, method |-> method,
                params |-> params, parsed |-> parse_typed(ty, kind, method, params)]
    /\ UNCHANGED <<latevars, corevars, tablevars, mcpvars>>

NextParse ==
    \E ty \in SuccessorTypes, kind \in {"request", "notification"},
       method \in FrameMethods, params \in FrameBodies :
       ParseFrame(ty, kind, method, params)

InitParse == Fresh(<<>>)

SpecParse == InitParse /\ [][NextParse]_vars

\* the method literal and the required fields of each embedded type, as its struct and
\* its parse function have them; UntypedMessage takes every method and body
LiteralOf(T) ==
    CASE T.name = "McpConnectRequest" -> {"_mcp/connect"}
      [] T.name = "NewSessionRequest" -> {"session/new"}
      [] T.name = "McpDisconnectNotification" -> {"_mcp/disconnect"}
      [] T.name = "McpOverAcpRequest" -> {"_mcp/request"}
      [] T.name = "McpOverAcpNotification" -> {"_mcp/notification"}
      [] OTHER -> {"_mcp/connect", "session/new", "_mcp/disconnect", "_mcp/request",
                   "_mcp/notification", "initialize"}
FieldsOf(T) ==
    CASE T.name = "McpConnectRequest" -> {"acp_url"}
      [] T.name = "NewSessionRequest" -> {"mcpServers"}
      [] T.name = "McpDisconnectNotification" -> {"connection_id"}
      [] T.name \in {"McpOverAcpRequest", "McpOverAcpNotification"} ->
            {"connectionId", "method", "params"}
      [] OTHER -> {}
ParsedAs == wire.stage = "parsed_as"
OuterMatches ==
    IF wire.ty.name = "SuccessorRequest"
    THEN wire.kind = "request" /\ wire.method = "_proxy/successor/request"
    ELSE wire.kind = "notification" /\ wire.method = "_proxy/successor/notification"
EnvelopeBodyOk == {"method", "params"} \subseteq DOMAIN wire.params
EmbeddedMatches == EnvelopeBodyOk /\ wire.params.method \in LiteralOf(wire.ty.arg)
EmbeddedBodyOk == EmbeddedMatches /\ FieldsOf(wire.ty.arg) \subseteq DOMAIN wire.params.params

\* C34: parsing a frame as a successor envelope of T gives None when the outer
\* method is not the successor method of the envelope's kind or the embedded method
\* is not T's, an error when the outer method matches and the envelope body or the
\* embedded T body is malformed, and a value exactly when both levels match; a
\* request envelope never parses as a notification, nor a notification envelope as a
\* request
C34_Compositional ==
    ParsedAs =>
       /\ ~OuterMatches => wire.parsed = ParseNone
       /\ OuterMatches /\ ~EnvelopeBodyOk => wire.parsed.tag = "Err"
       /\ OuterMatches /\ EnvelopeBodyOk /\ ~EmbeddedMatches => wire.parsed = ParseNone
       /\ OuterMatches /\ EmbeddedMatches /\ ~EmbeddedBodyOk => wire.parsed.tag = "Err"
       /\ OuterMatches /\ EmbeddedBodyOk => wire.parsed.tag = "Ok"
       /\ wire.parsed.tag = "Ok" => OuterMatches /\ EmbeddedBodyOk
       /\ wire.ty.name = "SuccessorRequest" /\ wire.kind = "notification" =>
             wire.parsed = ParseNone
       /\ wire.ty.name = "SuccessorNotification" /\ wire.kind = "request" =>
             wire.parsed = ParseNone

\* a request frame under the successor method around an _mcp/connect with a meta
\* parsed as SuccessorRequest<McpConnectRequest>
C34_Witness ==
    /\ ParsedAs
    /\ wire.ty = Generic("SuccessorRequest", Ty("McpConnectRequest"))
    /\ wire.parsed.tag = "Ok"
    /\ wire.parsed.value.meta = "{trace:1}"
    /\ wire.parsed.value.request.acp_url = wire.params.params.acp_url

\* the same frame asked of an envelope of another embedded type is not that type's
C34_NotMine ==
    /\ ParsedAs
    /\ wire.ty = Generic("SuccessorRequest", Ty("NewSessionRequest"))
    /\ wire.method = SUCCESSOR_REQUEST_METHOD
    /\ wire.kind = "request"
    /\ EnvelopeBodyOk
    /\ wire.params.method = METHOD_MCP_CONNECT_REQUEST
    /\ wire.parsed = ParseNone

(***************************************************************************)
(* The initialize handshake of the default proxy handler                   *)
(***************************************************************************)
\* an initialize request that carries the proxy capability
HasCapability(m) ==
    /\ m.kind = "request" /\ m.method = "initialize"
    /\ "protocolVersion" \in DOMAIN m.params
    /\ "proxy" \in DOMAIN m.params /\ m.params.proxy
\* the request sent on for the n-th message received is the initialize request inside a
\* successor envelope, without the capability
SentWithoutCapability(n) ==
    \E k \in ProxyOutsFor(n, "request") :
       /\ ProxyOutsFor(n, "request") = {k}
       /\ proxy.out[k].frame.method = SUCCESSOR_REQUEST_METHOD
       /\ proxy.out[k].frame.params.method = "initialize"
       /\ "proxy" \notin DOMAIN proxy.out[k].frame.params.params
       /\ \A f \in DOMAIN proxy.log[n].message.params \ {"proxy"} :
             /\ f \in DOMAIN proxy.out[k].frame.params.params
             /\ proxy.out[k].frame.params.params[f] = proxy.log[n].message.params[f]
       /\ proxy.out[k].to = n
\* the response to the n-th message received is the successor's answer: a result with
\* the capability added, an error as it is
AnsweredFromSuccessor(n) ==
    /\ Cardinality(ProxyResponsesFor(n)) <= 1
    /\ \A j \in ProxyResponsesFor(n) :
          \E k \in ProxyOutsFor(n, "request") :
             LET a == proxy.out[k].answer
                 p == proxy.responses[j].payload
             IN /\ a # ProxyNoAnswer
                /\ p.tag = a.tag
                /\ a.tag = "Err" => p = a
                /\ a.tag = "Ok" =>
                      /\ "proxy" \in DOMAIN p.value /\ p.value.proxy
                      /\ \A f \in DOMAIN a.value \ {"proxy"} :
                            f \in DOMAIN p.value /\ p.value[f] = a.value[f]
InitializeSent(k) ==
    /\ ProxyAnswered(k)
    /\ HasCapability(proxy.log[proxy.out[k].for].message)
InitializeAnswered(k) ==
    /\ k \in DOMAIN proxy.out
    /\ Cardinality(ProxyResponsesFor(proxy.out[k].for)) = 1

\* C35: an initialize request without the proxy capability is answered by the proxy
\* handler with an InvalidParams error and nothing is sent to the successor; one with
\* the capability is sent to the successor without it, and the request received is
\* answered exactly once with the successor's answer, a result with the capability
\* added and an error passed through
C35_Handshake ==
    /\ [](\A n \in DOMAIN proxy.log :
             LET m == proxy.log[n].message
             IN /\ LacksCapability(m) =>
                      /\ proxy.log[n].handled = "Yes"
                      /\ ProxyOutsFor(n, "request") \cup ProxyOutsFor(n, "notification") = {}
                      /\ Cardinality(ProxyResponsesFor(n)) = 1
                      /\ \A j \in ProxyResponsesFor(n) :
                            proxy.responses[j].payload = AnswerErr("InvalidParams")
                /\ HasCapability(m) =>
                      /\ proxy.log[n].handled = "Yes"
                      /\ ProxyOutsFor(n, "notification") = {}
                      /\ SentWithoutCapability(n)
                      /\ AnsweredFromSuccessor(n))
    /\ \A k \in OutIndexes : InitializeSent(k) ~> InitializeAnswered(k)

\* an initialize with the capability got the successor's result with the capability
\* added, and another got the successor's error
C35_Witness ==
    /\ Len(proxy.log) = 2
    /\ \A n \in {1, 2} : HasCapability(proxy.log[n].message)
    /\ \E j \in ProxyResponsesFor(1) :
          /\ proxy.responses[j].payload.tag = "Ok"
          /\ proxy.responses[j].payload.value.proxy
    /\ \E j \in ProxyResponsesFor(2) : proxy.responses[j].payload.tag = "Err"

\* an initialize without the capability was refused with nothing sent on
C35_Refused ==
    \E n \in DOMAIN proxy.log :
       /\ LacksCapability(proxy.log[n].message)
       /\ "proxy" \in DOMAIN proxy.log[n].message.params
       /\ ProxyResponsesFor(n) # {}
       /\ proxy.out = <<>>

(***************************************************************************)
(* The end of a responder's run: the connection of SpecResponders, with    *)
(* the return of RequestHandlerResponder::run as a step of its own.        *)
(***************************************************************************)
Done == [state |-> "done", oid |-> 0, id |-> 0]

call_rx_is_none_OnClose(q, closed) == closed

\* call_rx.next() gives None: the channel is empty and its sender, held by the handler
\* in the chain, has been dropped
call_rx_is_none(q, closed) == closed /\ q = <<>>

\* `while let Some(call) = call_rx.next().await { .. } Ok(())`: the loop is left when
\* next() gives None, and run returns Ok(())
ResponderEnd(idx) ==
    /\ chain[idx].kind = "RequestHandlerAsync"
    /\ responder[idx] = Idle
    /\ call_rx_is_none(call_q[idx], loop = "closed")
    /\ responder' = [responder EXCEPT ![idx] = Done]
    /\ UNCHANGED <<chain, last, incoming, nread, loop, cx, handled, outgoing, pending,
                   resolved, call_q, cblog>>
    /\ UNCHANGED extvars

NextDrain ==
    \/ Next
    \/ \E idx \in DOMAIN chain : ResponderEnd(idx)

\* a connection served by one responder handler and, before it, one in-line handler
\* of the other method
InitDrain ==
    Fresh(<<Handler("RequestHandlerSync", "authenticate"),
            Handler("RequestHandlerAsync", "initialize")>>)

SpecDrain == InitDrain /\ [][NextDrain]_vars

\* a responder is polled until its run returns
FairSpecDrain ==
    /\ SpecDrain
    /\ WF_vars(ResponderTake(2))
    /\ WF_vars(ResponderResume(2))
    /\ WF_vars(ResponderEnd(2))

AllDrained == responder[2] = Done

\* C36: once the sender of a handler responder's channel is dropped with the ended
\* connection, the responder runs its callback on every call already enqueued and then
\* its run returns Ok: it has never returned with a call still queued or a callback not
\* run to its end, it returns Ok whatever the callbacks returned, and it does return
C36_DrainAndStop ==
    /\ [](\A idx \in DOMAIN chain :
             /\ responder[idx].state \in {"idle", "awaiting", "done"}
             /\ chain[idx].kind # "RequestHandlerAsync" => responder[idx] = Idle
             /\ responder[idx] = Done =>
                   /\ loop = "closed"
                   /\ call_q[idx] = <<>>
                   /\ \A id \in ClaimedAsync(idx) :
                         /\ <<id, idx>> \in Started("responder")
                         /\ <<id, idx>> \in Ended("responder"))
    /\ (loop = "closed") ~> AllDrained

\* the responder has returned after two calls, the callback of one of them having
\* returned Err
C36_Witness ==
    /\ AllDrained
    /\ FailedCalls(2) # {}
    /\ Cardinality(ClaimedAsync(2)) >= 2

(***************************************************************************)
(* Responses nobody waits for: the connection of SpecDrain, with a peer    *)
(* that also writes responses with ids of its own choice.                  *)
(***************************************************************************)
Stray == "stray"
StrayWritten ==
    \E i \in DOMAIN incoming : incoming[i].type = "response" /\ incoming[i].body = Stray

\* the peer writes, once, a response it was not asked for: with the id of the first
\* outgoing request (not yet issued, pending, or answered) or with an id never issued.
\* (The number of a request frame is its place in `incoming`, which has MaxId places:
\* one such response fits among the requests and their answers.)
PeerStray ==
    /\ PeerMayWrite
    /\ ~StrayWritten
    /\ \E id \in {1, MaxFrames + 1} :
          incoming' = Append(incoming, ResponseFrame(id, "result", Stray))
    /\ UNCHANGED <<chain, last, nread, loop, cx, handled, outgoing, pending, resolved,
                   call_q, responder, cblog>>
    /\ UNCHANGED extvars

NextStray ==
    \/ Next
    \/ PeerStray

SpecStray == InitDrain /\ [][NextStray]_vars

\* the read loop reads a response whose id matches no pending request
UnknownRead ==
    /\ LoopReady
    /\ Unread
    /\ NextFrame.type = "response"
    /\ \A w \in pending : w.oid # NextFrame.id
    /\ nread' = nread + 1

\* C37: reading a response whose id matches no pending outgoing request resolves no
\* waiter, leaves the pending requests as they were, runs no handler, writes no frame
\* and leaves the read loop ready for the next frame
C37_Discarded ==
    [][UnknownRead =>
          /\ pending' = pending
          /\ resolved' = resolved
          /\ responder' = responder
          /\ handled' = handled /\ cblog' = cblog /\ call_q' = call_q /\ cx' = cx
          /\ outgoing' = outgoing
          /\ loop' = "idle"]_vars

\* a response with an id this side never issued was read, and a request read after it
\* has its response
C37_Witness ==
    \E i, j \in 1..nread :
       /\ i < j
       /\ incoming[i].type = "response"
       /\ \A k \in OutRequests(outgoing) : outgoing[k].id # incoming[i].id
       /\ incoming[j].type = "request"
       /\ Responses(j) # {}

(***************************************************************************)
(* Messages for a connection id that is not in the connections map         *)
(***************************************************************************)
ConnectionMethods ==
    {"_mcp/message", METHOD_MCP_REQUEST, METHOD_MCP_NOTIFICATION,
     METHOD_MCP_DISCONNECT_NOTIFICATION}
\* the connection id a tunnelled message or a disconnect names
NamedConnection(m) ==
    IF m.method = METHOD_MCP_DISCONNECT_NOTIFICATION THEN m.params.connection_id
    ELSE m.params.connectionId
\* registry r was given a message that names a connection its map did not hold
NamesUnknown(r) ==
    /\ Reached(r)
    /\ GivenTo(r).method \in ConnectionMethods
    /\ ~get_connection(mcp_last.before.registry[r], NamedConnection(GivenTo(r)))
\* connection c was opened and then removed by a disconnect
WasDisconnected(c) ==
    /\ c \in DOMAIN forwarder
    /\ \A r \in Registries : ~get_connection(mcp_last.before.registry[r], c)

\* the step dispatches a frame that names a connection no registry holds
DispatchesUnknown ==
    /\ nframes' = nframes + 1
    /\ mcp_last'.message.method \in ConnectionMethods
    /\ \A r \in Registries : ~get_connection(registry[r], NamedConnection(mcp_last'.message))

\* C38: a registry given an `_mcp/message`, `_mcp/request`, `_mcp/notification` or
\* `_mcp/disconnect` that names a connection id its connections map does not hold
\* (never opened, or disconnected before) returns Handled::No with the message as it
\* was given, has no effect and leaves its maps as they were; the dispatch of a frame
\* naming an id no registry holds queues nothing for any component, delivers nothing
\* to one, and changes no map and no task
C38_UnknownConnection ==
    /\ [](\A r \in Registries :
             NamesUnknown(r) =>
                /\ mcp_last.results[r].handled = "No"
                /\ mcp_last.results[r].message = GivenTo(r)
                /\ mcp_last.results[r].fx = <<>>
                /\ registry[r] = mcp_last.before.registry[r])
    /\ [][DispatchesUnknown =>
             /\ mcp_last'.handled = "No"
             /\ mcp_last'.out = mcp_last'.message
             /\ registry' = registry
             /\ mcp_server_rx' = mcp_server_rx
             /\ component' = component
             /\ forwarder' = forwarder]_vars

\* a second _mcp/disconnect for a connection that was open and disconnected before was
\* not claimed
C38_Witness ==
    /\ Dispatched
    /\ IsDisconnect(mcp_last.message)
    /\ WasDisconnected(mcp_last.message.params.connection_id)
    /\ mcp_last.handled = "No"
    /\ nframes = 3

\* an `_mcp/notification` for a connection disconnected before was not claimed
C38_AfterDisconnect ==
    /\ Dispatched
    /\ mcp_last.message.method = METHOD_MCP_NOTIFICATION
    /\ WasDisconnected(mcp_last.message.params.connectionId)
    /\ mcp_last.handled = "No"

(***************************************************************************)
(* Order of the tunnelled traffic of a connection                          *)
(***************************************************************************)
\* what was claimed for connection c and not lost: received by its component, then
\* still in its channel
Traffic(comp, rx, c) ==
    comp[c].received \o (IF c \in DOMAIN rx THEN rx[c] ELSE <<>>)
\* frames are numbered as the dispatch loop reads them
InDispatchOrder(q) == \A i, j \in DOMAIN q : i < j => q[i].id < q[j].id
\* both sides of connection c were spawned and its task has not failed
Spawned(c) ==
    /\ c \in DOMAIN forwarder
    /\ forwarder[c] # "failed"
    /\ component[c].serving
\* the step keeps the traffic of c, or adds the frame it dispatches at its end
KeepsTraffic(c) ==
    LET old == Traffic(component, mcp_server_rx, c)
        new == Traffic(component', mcp_server_rx', c)
    IN \/ new = old
       \/ /\ nframes' = nframes + 1
          /\ mcp_last'.handled = "Yes"
          /\ mcp_last'.message.method \in {METHOD_MCP_REQUEST, METHOD_MCP_NOTIFICATION}
          /\ mcp_last'.message.params.connectionId = c
          /\ new = Append(old, Embedded(mcp_last'.message))
\* the step claims a tunnelled frame for c
ClaimsFor(c) ==
    /\ nframes' = nframes + 1
    /\ mcp_last'.handled = "Yes"
    /\ mcp_last'.message.method \in {"_mcp/message", METHOD_MCP_REQUEST,
                                     METHOD_MCP_NOTIFICATION}
    /\ mcp_last'.message.params.connectionId = c
AllKeepTraffic ==
    \A c \in ConnectionIds :
       (c \in DOMAIN component /\ Spawned(c)) =>
          /\ KeepsTraffic(c)
          /\ ClaimsFor(c) =>
                Traffic(component', mcp_server_rx', c)
                   = Append(Traffic(component, mcp_server_rx, c), Embedded(mcp_last'.message))
          /\ \A k \in DOMAIN component[c].received :
                component'[c].received[k] = component[c].received[k]

\* C39: the tunnelled requests and notifications claimed for a connection_id reach that
\* connection's server component in the order the dispatch loop read them, each once:
\* a claimed frame goes to the back of what is still to be delivered, what the
\* component has received only grows at its end and by the frame first in line, nothing
\* claimed disappears or appears twice, and everything claimed is delivered
C39_Order ==
    /\ [](\A c \in DOMAIN component :
             /\ InDispatchOrder(Traffic(component, mcp_server_rx, c))
             /\ \A k \in DOMAIN component[c].received :
                   component[c].received[k].message.method
                      \in {"tools/list", "notifications/initialized"})
    /\ [][AllKeepTraffic]_vars
    /\ \A c \in ConnectionIds : Queued(c) ~> Drained(c)

\* the component of a connection has received a request and then a notification, in the
\* order they were dispatched
C39_Witness ==
    \E c \in DOMAIN component :
       /\ Len(component[c].received) = 2
       /\ component[c].received[1].kind = "request"
       /\ component[c].received[2].kind = "notification"
       /\ component[c].received[1].id < component[c].received[2].id
       /\ mcp_server_rx[c] = <<>>

(***************************************************************************)
(* A synchronous handler whose callback declines                           *)
(***************************************************************************)
\* invocation i of the run was of a synchronous handler that parsed the message and
\* whose callback declined
SyncDeclined(i) ==
    LET v == last.result.trace[i]
    IN /\ v.idx \in DOMAIN chain
       /\ chain[v.idx].kind = "RequestHandlerSync"
       /\ IsRequest(v.message)
       /\ parse_message(chain[v.idx].method, v.message) = "Ok"
       /\ last.beh[v.idx] \in {"decline", "decline_retry"}
\* what the callback with behaviour b hands back: the request it was given, or a
\* rewritten one with the retry bit set
CallbackReturned(b, m) ==
    IF b = "decline_retry"
    THEN [message |-> [m EXCEPT !.val = 1 - m.val], retry |-> TRUE]
    ELSE [message |-> m, retry |-> FALSE]
\* the effects the handler at idx had in the run
FxOf(idx) == {k \in DOMAIN last.result.fx : last.result.fx[k].idx = idx}

\* C40: a synchronous typed handler whose callback declines a parsed request returns
\* Handled::No with the message the callback returned, under the same method, for the
\* same request and with the retry bit the callback chose; the next handler of the chain
\* is invoked with exactly that message; the declining handler sends no response
C40_Decline ==
    last.delivered =>
       \A i \in DOMAIN last.result.trace :
          SyncDeclined(i) =>
             LET v == last.result.trace[i]
                 ret == CallbackReturned(last.beh[v.idx], v.message)
             IN /\ v.handled = "No"
                /\ v.out = ret.message
                /\ v.retry = ret.retry
                /\ v.out.method = v.message.method
                /\ v.out.id = v.message.id
                /\ v.out.kind = v.message.kind
                /\ parse_message(chain[v.idx].method, v.out) = "Ok"
                /\ i + 1 \in DOMAIN last.result.trace
                /\ last.result.trace[i + 1].idx = v.idx + 1
                /\ last.result.trace[i + 1].message = v.out
                /\ \A k \in FxOf(v.idx) : last.result.fx[k].op \in {"cb_start", "cb_end"}
                /\ (last.result.handled = "No" /\ ret.retry) => last.result.retry

\* the first handler declined with a rewritten request for retry, and the second
\* handler, of the same type, answered the rewritten request
C40_Witness ==
    /\ last.delivered
    /\ Len(last.result.trace) = 2
    /\ SyncDeclined(1)
    /\ last.beh[1] = "decline_retry"
    /\ last.result.trace[1].out # last.result.trace[1].message
    /\ last.result.trace[2].handled = "Yes"
    /\ chain[2].kind = "RequestHandlerSync"
    /\ \E k \in FxOf(2) : last.result.fx[k].op = "respond"

\* a plain decline: the request goes on as it was given, not for retry, and nobody
\* claims it
C40_PlainDecline ==
    /\ last.delivered
    /\ SyncDeclined(1)
    /\ last.beh[1] = "decline"
    /\ last.result.handled = "No"
    /\ ~last.result.retry

====
